---- MODULE Spec2Model ----
(***************************************************************************)
(* Model of the face-recognition demo (src/face_recognition).             *)
(*                                                                         *)
(* Two subsystems share no state and are checked under their own          *)
(* specifications:                                                         *)
(*   SpecGesture  the snap-hold state machine of GestureDetector, the     *)
(*                payment trigger of FaceRecognitionApp.run and the       *)
(*                background payment threads;                              *)
(*   SpecTracker  FaceTracker with its MultiFrameCollector and the JSON   *)
(*                registry file.                                           *)
(*                                                                         *)
(* Time is counted in ticks of half a second: every duration of config.py *)
(* that the modelled code compares against is a multiple of 0.5 s.        *)
(***************************************************************************)
EXTENDS Integers, Sequences, FiniteSets, TLC

VARIABLES
    \* ---- gesture / payment subsystem ----
    now,               \* time.time(), in ticks
    gesture_states,    \* GestureDetector.gesture_states: hand key -> state
    mainpc,            \* position of run()'s loop: "frame" | "events"
    events,            \* gesture_events still to be handled in this frame
    amount_preview,    \* FaceRecognitionApp.amount_preview
    last_payment_time, \* CryptoPaymentHandler.last_payment_time
    server_ready,      \* CryptoPaymentHandler.server_ready
    threads,           \* payment threads started by run(), in start order
    payment_status,    \* FaceRecognitionApp.payment_status
    speech,            \* a speech transcriber and an amount parser exist
    frames,            \* number of frames read so far
    pauses,            \* number of long pauses of the loop so far
    overSeen,          \* history: keys whose hold has reported >= the threshold
    dispatchLog,       \* history: one entry per payment thread started
    lastHandled,       \* history: what the last handled snap event did
    \* ---- face tracker subsystem ----
    registry,            \* FaceTracker.registry: the dict, in insertion order
    tracked_encodings,   \* FaceTracker.tracked_encodings
    tracked_ids,         \* FaceTracker.tracked_ids
    next_person_id,      \* FaceTracker.next_person_id
    pending_collections, \* MultiFrameCollector.pending_collections, in order
    registry_file,       \* the JSON registry file on disk
    quality_check,       \* config.ENABLE_QUALITY_CHECK (a frame collector exists)
    tclock,              \* the clock the tracker reads, one tick per call
    resets,              \* number of reset() calls so far
    lastCall,            \* history: the last tracker call and what it returned
    minted,              \* history: the ids generated since construction
    loaded,              \* history: the registry as loaded at construction
    \* ---- peace sign detection ----
    peace_stability,     \* GestureDetector.peace_stability: key -> frame times
    gesture_cooldowns,   \* GestureDetector.gesture_cooldowns: key -> time
    peace_calls,         \* number of _detect_peace_sign calls so far
    lastPeace,           \* history: the last _detect_peace_sign call
    \* ---- transaction log ----
    transactions_csv,    \* rows of logs/transactions.csv below the header
    transactions_json,   \* the file logs/transactions.json
    \* ---- iMessage handler ----
    last_send_time,      \* IMessageHandler.last_send_time
    outbox,              \* the messages osascript handed to Messages
    mclock,              \* time.time() as the handler reads it, in seconds
    message_calls,       \* number of handler calls so far
    lastSend,            \* history: the last handler call and its result
    firstSend,           \* history: the first send call on the handler
    sentAt,              \* history: when the last delivered send began
    \* ---- speech transcriber ----
    transcription_buffer, \* SpeechTranscriber.transcription_buffer (a deque)
    latest_transcription, \* SpeechTranscriber.latest_transcription
    last_processed_index, \* SpeechTranscriber.last_processed_index
    segments,            \* number of segments appended to the buffer so far
    returned_log,        \* history: the segments returned so far, call after call
    lastSpeech,          \* history: the last transcriber call
    \* ---- PersonInfo ----
    person_kwargs,       \* the keyword arguments a caller builds a PersonInfo from
    person_result,       \* history: what the last PersonInfo operation gave
    \* ---- crypto payment handler ----
    server_process,      \* CryptoPaymentHandler.server_process
    posts,               \* history: number of requests POSTed to the crypto server
    pay_calls,           \* number of handler calls so far
    lastPay,             \* history: the last handler call and its result
    \* ---- PersonInfoAPI: the cache, the polling flags and the poll workers ----
    person_cache,        \* _cache: the cached status of each person_id that has one
    polling_active,      \* _polling_active: person_id to flag
    poll_workers,        \* the poll_worker threads started so far
    api_calls,           \* calls of the API made so far
    \* ---- FaceEngine: the frame counter and the cache of the last processed frame ----
    frame_count,         \* frame_count
    last_face_locations, \* cache: locations
    last_face_names,     \* cache: names
    last_face_confidences, \* cache: confidences
    last_tracked_ids,    \* cache: tracked ids
    engine_calls,        \* calls of the engine made so far
    lastEngine           \* history: the last call of the engine and what it returned

gvars == <<now, gesture_states, mainpc, events, amount_preview,
           last_payment_time, server_ready, threads, payment_status,
           speech, frames, pauses, overSeen, dispatchLog, lastHandled>>
tvars == <<registry, tracked_encodings, tracked_ids, next_person_id,
           pending_collections, registry_file, quality_check, tclock, resets,
           lastCall, minted, loaded>>
rvars == <<peace_stability, gesture_cooldowns, peace_calls, lastPeace>>
lvars == <<transactions_csv, transactions_json>>
mvars == <<last_send_time, outbox, mclock, message_calls, lastSend,
           firstSend, sentAt>>
svars == <<transcription_buffer, latest_transcription, last_processed_index, segments, returned_log, lastSpeech>>
pvars == <<person_kwargs, person_result>>
cvars == <<server_process, posts, pay_calls, lastPay>>
avars == <<person_cache, polling_active, poll_workers, api_calls>>
evars == <<frame_count, last_face_locations, last_face_names, last_face_confidences, last_tracked_ids, engine_calls, lastEngine>>
xvars == <<svars, pvars, cvars, avars, evars>>
vars == <<gvars, tvars, rvars, lvars, mvars, xvars>>

\* Python's None: an optional value is the empty sequence or <<value>>.
None == << >>
Some(x) == <<x>>
Get(opt) == opt[1]

\* The tracker while only the gesture subsystem runs, and the reverse.
\* The subsystems that have a specification of their own, before anything
\* has called them.
\* IMessageHandler.cooldown_seconds; time.time() is far beyond it when the
\* handler is constructed.
cooldown_seconds == 5

InitRestFields ==
    /\ peace_stability = << >>
    /\ gesture_cooldowns = << >>
    /\ peace_calls = 0
    /\ lastPeace = [kind |-> "none", trail |-> << >>]
    /\ transactions_csv = << >>
    /\ transactions_json = None
    /\ last_send_time = 0
    /\ outbox = << >>
    /\ mclock = cooldown_seconds
    /\ message_calls = 0
    /\ lastSend = [op |-> "none"]
    /\ firstSend = None
    /\ sentAt = None
    /\ transcription_buffer = << >>
    /\ latest_transcription = << >>
    /\ last_processed_index = -1
    /\ segments = 0
    /\ returned_log = << >>
    /\ lastSpeech = [op |-> "none"]
    /\ server_process = None
    /\ posts = 0
    /\ pay_calls = 0
    /\ lastPay = [op |-> "none"]
    /\ person_cache = << >>
    /\ polling_active = << >>
    /\ poll_workers = << >>
    /\ api_calls = 0
    /\ frame_count = 0
    /\ last_face_locations = << >>
    /\ last_face_names = << >>
    /\ last_face_confidences = << >>
    /\ last_tracked_ids = << >>
    /\ engine_calls = 0
    /\ lastEngine = [op |-> "none"]

InitTrackerFields ==
    /\ registry = << >>
    /\ tracked_encodings = << >>
    /\ tracked_ids = << >>
    /\ next_person_id = 1
    /\ pending_collections = << >>
    /\ registry_file = [exists |-> FALSE, valid |-> FALSE, data |-> << >>]
    /\ quality_check = TRUE
    /\ tclock = 0
    /\ resets = 0
    /\ lastCall = [op |-> "none"]
    /\ minted = << >>
    /\ loaded = << >>

InitGestureFields ==
    /\ now = 0
    /\ gesture_states = << >>
    /\ mainpc = "frame"
    /\ events = << >>
    /\ amount_preview = None
    /\ last_payment_time = 0
    /\ server_ready = FALSE
    /\ threads = << >>
    /\ payment_status = None
    /\ speech = FALSE
    /\ frames = 0
    /\ pauses = 0
    /\ overSeen = {}
    /\ dispatchLog = << >>
    /\ lastHandled = [kind |-> "none"]

\* A PersonInfo the callers have not built yet.
InitPersonIdle ==
    /\ person_kwargs = << >>
    /\ person_result = [op |-> "none"]

InitRestIdle ==
    /\ InitRestFields
    /\ InitPersonIdle

InitTrackerIdle ==
    /\ InitRestIdle
    /\ InitTrackerFields

InitGestureIdle ==
    /\ InitRestIdle
    /\ InitGestureFields

(***************************************************************************)
(* Program constants, in ticks of 0.5 s where they are durations.         *)
(***************************************************************************)
PAYMENT_HOLD_DURATION == 4
PAYMENT_COOLDOWN == 60
PREVIEW_HOLD_DURATION == 3
PAYMENT_DISPLAY_DURATION == 10
MAX_NUM_HANDS == 2

(***************************************************************************)
(* Bounds of the model.                                                    *)
(***************************************************************************)
MaxFrames == 3
MaxPauses == 1

Labels == {"Left", "Right"}

\* f"{hand_label}_{hand_idx}": the pair stands for the formatted string.
HandKey(label, idx) == <<label, idx>>

\* What MediaPipe can report for one frame: up to MAX_NUM_HANDS hands, each
\* with a handedness label and landmarks that satisfy the snap predicate
\* or not.  Two hands may carry the same label.
Hand == [label : Labels, snap : BOOLEAN]
HandLists == UNION {[1..n -> Hand] : n \in 0..MAX_NUM_HANDS}

\* The clock advance between the readings of two consecutive frames: the
\* next tick, or a gap that carries a hold to the preview or to the payment
\* threshold.
FrameGaps == {1, PREVIEW_HOLD_DURATION, PAYMENT_HOLD_DURATION}

(***************************************************************************)
(* GestureDetector._detect_snap                                            *)
(***************************************************************************)
NewHandState ==
    [active |-> FALSE, start_time |-> 0, payment_triggered |-> FALSE]

\* gesture_states after the "initialize tracking for this hand" step.
WithHand(states, hand_id) ==
    IF hand_id \in DOMAIN states THEN states
    ELSE [k \in DOMAIN states \cup {hand_id} |->
            IF k = hand_id THEN NewHandState ELSE states[k]]

\* Entering the snap position without stamping start_time: a variant that
\* the entry contract (C13) must tell apart from the code.
SnapEnterUnstamped(st, t) ==
    [st EXCEPT !.active = TRUE, !.payment_triggered = FALSE]

\* Entering the snap position: start_time is stamped, the latch is reset.
SnapEnter(st, t) ==
    [st EXCEPT !.active = TRUE, !.start_time = t, !.payment_triggered = FALSE]

\* Leaving the snap position with the latch left as it is: a variant that
\* the release contract (C15) must tell apart from the code.
SnapReleaseLatched(st) ==
    [st EXCEPT !.active = FALSE]

\* Leaving the snap position.
SnapRelease(st) ==
    [st EXCEPT !.active = FALSE, !.payment_triggered = FALSE]

\* _detect_snap stamping start_time on every call in the snap position: a
\* variant that the hold contract (C14) must tell apart from the code.
DetectSnapRestamping(states, hand_id, in_snap_position, t) ==
    LET s0 == WithHand(states, hand_id)
        st == s0[hand_id]
    IN  IF in_snap_position
        THEN LET st1 == IF ~st.active THEN SnapEnter(st, t)
                        ELSE [st EXCEPT !.start_time = t]
             IN  [states |-> [s0 EXCEPT ![hand_id] = st1],
                  is_snap |-> TRUE,
                  hold_duration |-> t - st1.start_time]
        ELSE [states |-> IF st.active
                         THEN [s0 EXCEPT ![hand_id] = SnapRelease(st)]
                         ELSE s0,
              is_snap |-> FALSE,
              hold_duration |-> 0]

\* One call of _detect_snap for hand_id at time t: the new gesture_states
\* and the returned (is_snap, hold_duration).
DetectSnap(states, hand_id, in_snap_position, t) ==
    LET s0 == WithHand(states, hand_id)
        st == s0[hand_id]
    IN  IF in_snap_position
        THEN LET st1 == IF ~st.active THEN SnapEnter(st, t) ELSE st
             IN  [states |-> [s0 EXCEPT ![hand_id] = st1],
                  is_snap |-> TRUE,
                  hold_duration |-> t - st1.start_time]
        ELSE [states |-> IF st.active
                         THEN [s0 EXCEPT ![hand_id] = SnapRelease(st)]
                         ELSE s0,
              is_snap |-> FALSE,
              hold_duration |-> 0]

(***************************************************************************)
(* GestureDetector.detect_gestures: the hands are evaluated in the order  *)
(* MediaPipe lists them; a hand whose snap is detected yields one event.   *)
(* An event carries the hand's label but not its index; `src` and `start`  *)
(* are history fields (the detector key that produced the event and the    *)
(* start_time of its hold) that no modelled code reads; so is `first`,     *)
(* which ReadFrame sets when this is the first evaluation of the hold that *)
(* reports a hold_duration >= PAYMENT_HOLD_DURATION.                       *)
(***************************************************************************)
SnapEvent(label, hold, idx, start) ==
    [gesture_type |-> "snap", hand_label |-> label, hold_duration |-> hold,
     src |-> HandKey(label, idx), start |-> start, first |-> FALSE]

RECURSIVE DetectFrom(_, _, _, _, _)
DetectFrom(states, evs, hands, i, t) ==
    IF i > Len(hands) THEN [states |-> states, events |-> evs]
    ELSE LET hand_idx == i - 1
             hand_id == HandKey(hands[i].label, hand_idx)
             r == DetectSnap(states, hand_id, hands[i].snap, t)
             evs1 == IF r.is_snap
                     THEN Append(evs, SnapEvent(hands[i].label, r.hold_duration,
                                     hand_idx, r.states[hand_id].start_time))
                     ELSE evs
         IN  DetectFrom(r.states, evs1, hands, i + 1, t)

DetectGestures(states, hands, t) == DetectFrom(states, <<>>, hands, 1, t)

(***************************************************************************)
(* CryptoPaymentHandler.can_send_payment                                   *)
(***************************************************************************)
CanSendPayment(t, last) == ~(t - last < PAYMENT_COOLDOWN)

(***************************************************************************)
(* AmountParser.validate_amount.  Amounts are counted in units of         *)
(* 0.000001 coin; None is "no amount parsed".                              *)
(***************************************************************************)
DEFAULT_PAYMENT_AMOUNT_SUI == 100
DEFAULT_PAYMENT_AMOUNT_XRPL == 100
MIN_AMOUNT == 10
MAX_AMOUNT == 1000000000

Currencies == {"SUI", "XRPL"}

\* validate_amount without its lower limit: a variant that the range of the
\* dispatched amounts (C27) must tell apart from the code.
ValidateAmountNoMinimum(amount, currency) ==
    IF amount = None
    THEN [is_valid |-> TRUE,
          amount |-> IF currency = "XRPL" THEN DEFAULT_PAYMENT_AMOUNT_XRPL
                     ELSE DEFAULT_PAYMENT_AMOUNT_SUI,
          currency |-> currency]
    ELSE IF Get(amount) <= 0 \/ Get(amount) > MAX_AMOUNT
    THEN [is_valid |-> FALSE, amount |-> 0, currency |-> currency]
    ELSE [is_valid |-> TRUE, amount |-> Get(amount), currency |-> currency]

ValidateAmount(amount, currency) ==
    IF amount = None
    THEN [is_valid |-> TRUE,
          amount |-> IF currency = "XRPL" THEN DEFAULT_PAYMENT_AMOUNT_XRPL
                     ELSE DEFAULT_PAYMENT_AMOUNT_SUI,
          currency |-> currency]
    ELSE IF \/ Get(amount) < 0 \/ Get(amount) = 0
            \/ Get(amount) > MAX_AMOUNT \/ Get(amount) < MIN_AMOUNT
    THEN [is_valid |-> FALSE, amount |-> 0, currency |-> currency]
    ELSE [is_valid |-> TRUE, amount |-> Get(amount), currency |-> currency]

\* What parse_amount can return for the recent transcription: nothing, or
\* the number its patterns found (digits with an optional point, so never
\* negative): zero, below the minimum, acceptable, above the maximum.
ParsedAmounts == {None, Some(0), Some(5), Some(50), Some(MAX_AMOUNT + 1)}

(***************************************************************************)
(* The state after FaceRecognitionApp.__init__ with gesture detection and *)
(* crypto payment enabled.  start_server leaves server_ready True or False *)
(* according to the health checks; the speech transcriber is present or    *)
(* not according to config.ENABLE_SPEECH_TRANSCRIPTION.                    *)
(***************************************************************************)
ENABLE_SPEECH_TRANSCRIPTION == TRUE

NoHandled == [kind |-> "none"]

InitGesture ==
    /\ InitTrackerIdle
    /\ now = PAYMENT_COOLDOWN
    /\ gesture_states = << >>
    /\ mainpc = "frame"
    /\ events = << >>
    /\ amount_preview = None
    /\ last_payment_time = 0
    /\ server_ready \in BOOLEAN
    /\ threads = << >>
    /\ payment_status = None
    /\ speech = ENABLE_SPEECH_TRANSCRIPTION
    /\ frames = 0
    /\ pauses = 0
    /\ overSeen = {}
    /\ dispatchLog = << >>
    /\ lastHandled = NoHandled

(***************************************************************************)
(* run(): one frame is read and detect_gestures evaluates its hands.       *)
(***************************************************************************)
\* Whether the event is the first of its hold to report a duration over the
\* payment threshold.
FirstOverThreshold(event) ==
    /\ event.hold_duration >= PAYMENT_HOLD_DURATION
    /\ event.src \notin overSeen

ReadFrameWithin(hands, gap, limit) ==
    /\ mainpc = "frame"
    /\ frames < limit
    /\ LET r == DetectGestures(gesture_states, hands, now + gap)
           over == {r.events[i].src : i \in
                      {j \in 1..Len(r.events) :
                         r.events[j].hold_duration >= PAYMENT_HOLD_DURATION}}
       IN  /\ gesture_states' = r.states
           /\ events' = [i \in 1..Len(r.events) |->
                            [r.events[i] EXCEPT
                               !.first = FirstOverThreshold(r.events[i])]]
           /\ overSeen' = {k \in overSeen \cup over : r.states[k].active}
    /\ now' = now + gap
    /\ frames' = frames + 1
    /\ mainpc' = "events"
    /\ lastHandled' = NoHandled
    /\ UNCHANGED <<amount_preview, last_payment_time, server_ready, threads,
                   payment_status, speech, pauses, dispatchLog>>

ReadFrame(hands, gap) == ReadFrameWithin(hands, gap, MaxFrames)

\* run(), lines 157-167: the loop is paused (SPACE) while a cooldown runs
\* and resumed when it is over; no frame is read meanwhile.
Pause ==
    /\ mainpc = "frame"
    /\ pauses < MaxPauses
    /\ ~CanSendPayment(now, last_payment_time)
    /\ now' = now + PAYMENT_COOLDOWN
    /\ pauses' = pauses + 1
    /\ UNCHANGED <<gesture_states, mainpc, events, amount_preview,
                   last_payment_time, server_ready, threads, payment_status,
                   speech, frames, overSeen, dispatchLog, lastHandled>>

(***************************************************************************)
(* run(), lines 206-267: the body of "for event in gesture_events" for    *)
(* the next event.  speech is whether a transcriber and parser exist;     *)
(* parsed and currency are what parse_amount returns when it is asked.     *)
(***************************************************************************)
MainHandId(event) == HandKey(event.hand_label, 0)

PreviewAfter(event, preview, has_speech, parsed, currency, t) ==
    IF /\ event.hold_duration >= PREVIEW_HOLD_DURATION
       /\ event.hold_duration < PAYMENT_HOLD_DURATION
       /\ preview = None
    THEN IF has_speech
         THEN LET v == ValidateAmount(parsed, currency)
              IN  IF v.is_valid
                  THEN Some([amount |-> v.amount, currency |-> v.currency,
                             timestamp |-> t])
                  ELSE preview
         ELSE Some([amount |-> DEFAULT_PAYMENT_AMOUNT_SUI, currency |-> "SUI",
                    timestamp |-> t])
    ELSE preview

PaymentTriggered(event, states, t, last) ==
    /\ event.hold_duration >= PAYMENT_HOLD_DURATION
    /\ MainHandId(event) \in DOMAIN states
    /\ ~states[MainHandId(event)].payment_triggered
    /\ CanSendPayment(t, last)

NewThread(preview) ==
    IF preview # None
    THEN [pc |-> "start", amount |-> Get(preview).amount,
          currency |-> Get(preview).currency]
    ELSE [pc |-> "start", amount |-> DEFAULT_PAYMENT_AMOUNT_SUI, currency |-> "SUI"]

HandleEvent(parsed, currency) ==
    /\ mainpc = "events"
    /\ events # << >>
    /\ LET event == Head(events)
           preview == PreviewAfter(event, amount_preview, speech, parsed, currency, now)
           fire == PaymentTriggered(event, gesture_states, now, last_payment_time)
       IN  /\ events' = Tail(events)
           /\ lastHandled' =
                [kind |-> "snap", src |-> event.src, start |-> event.start,
                 hand_id |-> MainHandId(event),
                 preview |-> preview,
                 hold_duration |-> event.hold_duration, first |-> event.first,
                 cooldown_active |-> ~CanSendPayment(now, last_payment_time),
                 dispatched |-> fire]
           /\ IF fire
              THEN /\ gesture_states' =
                        [gesture_states EXCEPT
                            ![MainHandId(event)].payment_triggered = TRUE]
                   /\ threads' = Append(threads, NewThread(preview))
                   /\ amount_preview' = None
                   /\ dispatchLog' = Append(dispatchLog,
                        [time |-> now, src |-> event.src, start |-> event.start])
              ELSE /\ amount_preview' = preview
                   /\ UNCHANGED <<gesture_states, threads, dispatchLog>>
    /\ UNCHANGED <<now, mainpc, last_payment_time, server_ready,
                   payment_status, speech, frames, pauses, overSeen>>

(***************************************************************************)
(* run(): after the events the frame is drawn; _draw_payment_overlay      *)
(* clears a success or failure status that has been shown long enough.    *)
(***************************************************************************)
StatusAfterOverlay(status, t) ==
    IF /\ status # None
       /\ Get(status).state \in {"success", "failure"}
       /\ t - Get(status).timestamp > PAYMENT_DISPLAY_DURATION
    THEN None
    ELSE status

DrawFrame ==
    /\ mainpc = "events"
    /\ events = << >>
    /\ payment_status' = StatusAfterOverlay(payment_status, now)
    /\ mainpc' = "frame"
    /\ UNCHANGED <<now, gesture_states, events, amount_preview,
                   last_payment_time, server_ready, threads, speech, frames,
                   pauses, overSeen, dispatchLog, lastHandled>>

(***************************************************************************)
(* _send_payment_async on its background thread: the "sending" status,    *)
(* then send_payment and the status of its result.  A successful payment  *)
(* stamps last_payment_time; server_ok is what the crypto server answers.  *)
(***************************************************************************)
ThreadStart(i) ==
    /\ threads[i].pc = "start"
    /\ threads' = [threads EXCEPT ![i].pc = "send"]
    /\ payment_status' = Some([state |-> "sending", timestamp |-> now])
    /\ UNCHANGED <<now, gesture_states, mainpc, events, amount_preview,
                   last_payment_time, server_ready, speech, frames, pauses, overSeen,
                   dispatchLog, lastHandled>>

SendPaymentSucceeds(ready, server_ok) == ready /\ server_ok

ThreadFinish(i, server_ok) ==
    /\ threads[i].pc = "send"
    /\ LET success == SendPaymentSucceeds(server_ready, server_ok)
       IN  /\ last_payment_time' = IF success THEN now ELSE last_payment_time
           /\ payment_status' =
                Some([state |-> IF success THEN "success" ELSE "failure",
                      timestamp |-> now])
           /\ threads' = [threads EXCEPT ![i].pc =
                            IF success THEN "success" ELSE "failure"]
    /\ UNCHANGED <<now, gesture_states, mainpc, events, amount_preview,
                   server_ready, speech, frames, pauses, overSeen, dispatchLog,
                   lastHandled>>

NextGesture ==
    \/ \E hands \in HandLists, gap \in FrameGaps : ReadFrame(hands, gap)
    \/ \E parsed \in ParsedAmounts, currency \in Currencies :
          HandleEvent(parsed, currency)
    \/ DrawFrame
    \/ Pause
    \/ \E i \in DOMAIN threads : ThreadStart(i)
    \/ \E i \in DOMAIN threads, server_ok \in BOOLEAN : ThreadFinish(i, server_ok)

SpecGesture == InitGesture /\ [][NextGesture /\ UNCHANGED <<tvars, rvars, lvars, mvars, xvars>>]_vars

(***************************************************************************)
(* Claims about the snap hold and the payment trigger (SpecGesture).       *)
(***************************************************************************)

\* A hold is identified by the detector key of the hand and the start_time
\* stamped when the hand entered the snap position.
SameHold(a, b) == a.src = b.src /\ a.start = b.start

\* C1: during one continuous snap hold of a hand the main loop starts at
\* most one payment thread, whatever other hands do in the same frames.
C1_AtMostOncePerHold ==
    \A i, j \in DOMAIN dispatchLog :
        SameHold(dispatchLog[i], dispatchLog[j]) => i = j

\* C2: between any two payment dispatches at least PAYMENT_COOLDOWN elapses,
\* also while an earlier payment is still in flight on its thread.
C2_CooldownBetweenDispatches ==
    \A i, j \in DOMAIN dispatchLog :
        i < j => dispatchLog[j].time - dispatchLog[i].time >= PAYMENT_COOLDOWN

\* C3: on the first frame in which a hand's hold_duration reaches
\* PAYMENT_HOLD_DURATION, with the cooldown not active, a payment is
\* dispatched, whatever the index of the hand among the detected hands.
C3_FiresOnThreshold ==
    (/\ lastHandled.kind = "snap"
     /\ lastHandled.first
     /\ ~lastHandled.cooldown_active) => lastHandled.dispatched

(***************************************************************************)
(*                          FACE IDENTITY TRACKER                          *)
(*                                                                         *)
(* A face encoding is a point on a line and face_distance is the Euclidean *)
(* distance on it; the unit is DUPLICATE_THRESHOLD, so that 0, 1 and 2 are *)
(* pairwise "same, same, different".  A detected face is what the engine   *)
(* hands to track_face: its encoding, its location and the sharpness of    *)
(* the crop of the frame at that location.                                 *)
(***************************************************************************)
DUPLICATE_THRESHOLD == 1
SAVE_EVERY == 10

\* Bounds of the tracker model.  MultiFrameCollector is built with
\* num_frames = config.QUALITY_FRAMES_TO_COLLECT; the model collects fewer
\* frames per identity.
num_frames == 3
MaxCalls == 5
MaxSessionCalls == 6
MaxResets == 1

Encodings == 0..3
SharpnessScores == {1, 2}

\* face_location of a detected face: one location per distinct appearance.
LocationOf(encoding, sharpness) == 2 * encoding + sharpness

Faces == {[encoding |-> e, sharpness |-> q, location |-> LocationOf(e, q)] :
            e \in Encodings, q \in SharpnessScores}

\* face_recognition.face_distance for one pair of encodings.
FaceDistance(a, b) == IF a >= b THEN a - b ELSE b - a

(***************************************************************************)
(* Person ids.  An id is the string "person_" followed by digits; the      *)
(* model keeps the digits.                                                 *)
(***************************************************************************)
RECURSIVE Digits(_)
Digits(n) == IF n < 10 THEN <<n>> ELSE Append(Digits(n \div 10), n % 10)

RECURSIVE ZeroPad(_, _)
ZeroPad(ds, width) == IF Len(ds) >= width THEN ds ELSE ZeroPad(<<0>> \o ds, width)

\* f"person_{n:03d}"
FormatPersonId(n) == ZeroPad(Digits(n), 3)

\* int(pid.split('_')[1])
RECURSIVE ParseInt(_)
ParseInt(ds) ==
    IF Len(ds) = 0 THEN 0
    ELSE 10 * ParseInt(SubSeq(ds, 1, Len(ds) - 1)) + ds[Len(ds)]

\* _generate_person_id without the increment of the counter: a variant that
\* the id contract (C6) must tell apart from the code.
GeneratePersonIdStuck(counter) ==
    [person_id |-> FormatPersonId(counter), next_person_id |-> counter]

\* FaceTracker._generate_person_id: the id, and the counter after it.
GeneratePersonId(counter) ==
    [person_id |-> FormatPersonId(counter), next_person_id |-> counter + 1]

(***************************************************************************)
(* The registry dict: a sequence of records in insertion order.            *)
(***************************************************************************)
Keys(reg) == {reg[i].id : i \in DOMAIN reg}

IndexOf(reg, id) == CHOOSE i \in DOMAIN reg : reg[i].id = id

\* registry[person_id] = record
SetItem(reg, rec) ==
    IF rec.id \in Keys(reg)
    THEN [reg EXCEPT ![IndexOf(reg, rec.id)] = rec]
    ELSE Append(reg, rec)

\* The record track_face and _handle_quality_collection put in the registry.
\* image_path stands for the image file it names (see ImageFile).
\* sharpness_score is None for a record minted without the quality
\* collection.
NewRecord(person_id, t, image, sharpness) ==
    [id |-> person_id, first_seen |-> t, last_seen |-> t,
     image_path |-> image, sharpness_score |-> sharpness,
     detection_count |-> 1, person_info |-> None, api_called |-> FALSE]

\* _save_registry leaving out the newest record: a variant that the
\* persistence contract (C7) must tell apart from the code.
SaveRegistryShort(reg) ==
    [exists |-> TRUE, valid |-> TRUE,
     data |-> IF Len(reg) = 0 THEN reg ELSE SubSeq(reg, 1, Len(reg) - 1)]

\* FaceTracker._save_registry: json.dump of the whole registry.
SaveRegistry(reg) == [exists |-> TRUE, valid |-> TRUE, data |-> reg]

(***************************************************************************)
(* Matching against the tracked set.                                       *)
(***************************************************************************)
\* np.argmin / np.argmax: the first index of the least / greatest value.
ArgMin(xs) ==
    CHOOSE i \in DOMAIN xs :
        /\ \A j \in DOMAIN xs : xs[i] <= xs[j]
        /\ \A j \in DOMAIN xs : j < i => xs[j] > xs[i]

ArgMax(xs) ==
    CHOOSE i \in DOMAIN xs :
        /\ \A j \in DOMAIN xs : xs[i] >= xs[j]
        /\ \A j \in DOMAIN xs : j < i => xs[j] < xs[i]

\* _is_duplicate with a strict comparison at the threshold: a variant that
\* the matching contract (C4) must tell apart from the code.
IsDuplicateStrict(encs, ids, encoding) ==
    IF Len(encs) = 0
    THEN [is_duplicate |-> FALSE, person_id |-> None]
    ELSE LET distances == [i \in DOMAIN encs |-> FaceDistance(encs[i], encoding)]
             min_distance_idx == ArgMin(distances)
         IN  IF distances[min_distance_idx] < DUPLICATE_THRESHOLD
             THEN [is_duplicate |-> TRUE, person_id |-> Some(ids[min_distance_idx])]
             ELSE [is_duplicate |-> FALSE, person_id |-> None]

\* FaceTracker._is_duplicate: (is_duplicate, person_id).
IsDuplicate(encs, ids, encoding) ==
    IF Len(encs) = 0
    THEN [is_duplicate |-> FALSE, person_id |-> None]
    ELSE LET distances == [i \in DOMAIN encs |-> FaceDistance(encs[i], encoding)]
             min_distance_idx == ArgMin(distances)
         IN  IF distances[min_distance_idx] <= DUPLICATE_THRESHOLD
             THEN [is_duplicate |-> TRUE, person_id |-> Some(ids[min_distance_idx])]
             ELSE [is_duplicate |-> FALSE, person_id |-> None]

(***************************************************************************)
(* face_quality: the sharpest crop of a collection.                        *)
(***************************************************************************)
\* FaceTracker._crop_face_with_padding: the part of the frame at the location.
CropFace(face) == [at |-> face.location, sharpness |-> face.sharpness]

\* face_recognition.face_encodings on a saved crop: the encoding of the
\* face that is at the crop's place.
FaceEncodings(crop) == Some((crop.at - crop.sharpness) \div 2)

\* FaceQualityDetector.calculate_sharpness
CalculateSharpness(crop) == crop.sharpness

\* select_best_face taking the last of the sharpest crops: a variant that
\* the best-frame contract (C9) must tell apart from the code.
SelectBestFaceLast(faces) ==
    LET sharpness_scores == [i \in DOMAIN faces |-> CalculateSharpness(faces[i])]
        best_index == CHOOSE i \in DOMAIN faces :
                          /\ \A j \in DOMAIN faces : sharpness_scores[i] >= sharpness_scores[j]
                          /\ \A j \in DOMAIN faces :
                                 j > i => sharpness_scores[j] < sharpness_scores[i]
    IN  [best_index |-> best_index, sharpness |-> sharpness_scores[best_index]]

\* FaceQualityDetector.select_best_face: (best_index, sharpness_score).
SelectBestFace(faces) ==
    LET sharpness_scores == [i \in DOMAIN faces |-> CalculateSharpness(faces[i])]
        best_index == ArgMax(sharpness_scores)
    IN  [best_index |-> best_index, sharpness |-> sharpness_scores[best_index]]

\* MultiFrameCollector.start_collection
StartCollection(pending, person_hash) ==
    Append(pending, [hash |-> person_hash, frames |-> << >>,
                     encodings |-> << >>, locations |-> << >>, count |-> 0])

PendingIndex(pending, person_hash) ==
    CHOOSE i \in DOMAIN pending : pending[i].hash = person_hash

\* add_frame reporting completion one frame late: a variant that the
\* enrollment contract (C8) must tell apart from the code.
AddFrameLate(pending, person_hash, frame, encoding, location) ==
    LET i == PendingIndex(pending, person_hash)
        c == pending[i]
        added == [c EXCEPT !.frames = Append(@, frame),
                           !.encodings = Append(@, encoding),
                           !.locations = Append(@, location),
                           !.count = @ + 1]
    IN  [pending |-> [pending EXCEPT ![i] = added],
         complete |-> added.count > num_frames]

\* MultiFrameCollector.add_frame: the collections after it, and its result.
AddFrame(pending, person_hash, frame, encoding, location) ==
    LET i == PendingIndex(pending, person_hash)
        c == pending[i]
        added == [c EXCEPT !.frames = Append(@, frame),
                           !.encodings = Append(@, encoding),
                           !.locations = Append(@, location),
                           !.count = @ + 1]
    IN  [pending |-> [pending EXCEPT ![i] = added],
         complete |-> added.count >= num_frames]

\* del pending_collections[person_hash]
DelItem(pending, i) ==
    [k \in 1..(Len(pending) - 1) |-> IF k < i THEN pending[k] ELSE pending[k + 1]]

\* MultiFrameCollector.get_best_frame
GetBestFrame(pending, person_hash) ==
    LET i == PendingIndex(pending, person_hash)
        c == pending[i]
        best == SelectBestFace(c.frames)
    IN  [best_frame |-> c.frames[best.best_index],
         best_encoding |-> c.encodings[best.best_index],
         best_location |-> c.locations[best.best_index],
         sharpness |-> best.sharpness,
         pending |-> DelItem(pending, i)]

\* The comparison of that loop made with the newest buffered encoding
\* instead of the first: a variant that the merge contract (C10) must tell
\* apart from the code.
MatchesCollectionNewest(c, encoding) ==
    /\ Len(c.encodings) > 0
    /\ FaceDistance(c.encodings[Len(c.encodings)], encoding) <= DUPLICATE_THRESHOLD

\* The loop at the head of _handle_quality_collection: the pending
\* collections whose first buffered encoding is within the threshold.
MatchesCollection(c, encoding) ==
    /\ Len(c.encodings) > 0
    /\ FaceDistance(c.encodings[1], encoding) <= DUPLICATE_THRESHOLD

FindCollection(pending, encoding) ==
    LET matching == {i \in DOMAIN pending : MatchesCollection(pending[i], encoding)}
    IN  IF matching = {} THEN None
        ELSE Some(pending[CHOOSE i \in matching : \A j \in matching : i <= j].hash)

(***************************************************************************)
(* Construction: FaceTracker.__init__ and _load_registry.                  *)
(***************************************************************************)
\* An image file as _load_registry meets it: whether the path exists,
\* whether load_image_file and face_encodings return, and the encodings
\* face_encodings finds in it.
ImageFile(exists, loads, encodings) ==
    [exists |-> exists, loads |-> loads, encodings |-> encodings]

\* The file cv2.imwrite leaves for a crop.
SavedImage(crop) == ImageFile(TRUE, TRUE, FaceEncodings(crop))

\* int(pid.split('_')[1]) returns: the suffix is a non-empty string of
\* digits (a character that is no digit is a number above 9 here).
IsNumeric(ds) == Len(ds) > 0 /\ \A i \in DOMAIN ds : ds[i] \in 0..9

\* A round of that loop which, at a record that adds nothing, drops the
\* entries of the records before it too: a variant that the
\* recomputation contract (C12) must tell apart from the code.
LoadRecordForgetting(rec, acc) ==
    IF "image_path" \notin DOMAIN rec
    THEN [acc EXCEPT !.error = TRUE]
    ELSE IF /\ rec.image_path.exists
            /\ rec.image_path.loads
            /\ Len(rec.image_path.encodings) > 0
    THEN [acc EXCEPT !.tracked_encodings = Append(@, rec.image_path.encodings[1]),
                     !.tracked_ids = Append(@, rec.id)]
    ELSE [acc EXCEPT !.tracked_encodings = << >>, !.tracked_ids = << >>]

\* One round of the loop of _load_registry over registry.items().  A record
\* without the key 'image_path' raises KeyError, which the inner try does
\* not cover; a missing image, an image that cannot be loaded or encoded
\* and an image without a face add nothing to the match set.
LoadRecord(rec, acc) ==
    IF "image_path" \notin DOMAIN rec
    THEN [acc EXCEPT !.error = TRUE]
    ELSE IF /\ rec.image_path.exists
            /\ rec.image_path.loads
            /\ Len(rec.image_path.encodings) > 0
    THEN [acc EXCEPT !.tracked_encodings = Append(@, rec.image_path.encodings[1]),
                     !.tracked_ids = Append(@, rec.id)]
    ELSE acc

RECURSIVE LoadEncodings(_, _, _)
\* The loop, left at the first round that raises.
LoadEncodings(reg, i, acc) ==
    IF i > Len(reg) \/ acc.error THEN acc
    ELSE LoadEncodings(reg, i + 1, LoadRecord(reg[i], acc))

Max(S) == CHOOSE x \in S : \A y \in S : x >= y

\* _load_registry that keeps what json.load returned when a later step
\* raises: a variant that the fallback contract (C11) must tell apart from
\* the code.
LoadRegistryKeeping(file) ==
    LET fresh == [registry |-> << >>, tracked_encodings |-> << >>,
                  tracked_ids |-> << >>, next_person_id |-> 1, error |-> FALSE]
    IN  IF ~file.exists THEN fresh
        ELSE IF ~file.valid THEN [fresh EXCEPT !.error = TRUE]
        ELSE LET lists == LoadEncodings(file.data, 1,
                             [tracked_encodings |-> << >>, tracked_ids |-> << >>,
                              error |-> FALSE])
                 ids_ok == \A i \in DOMAIN file.data : IsNumeric(file.data[i].id)
             IN  [registry |-> file.data,
                  tracked_encodings |-> lists.tracked_encodings,
                  tracked_ids |-> lists.tracked_ids,
                  next_person_id |->
                      IF ~lists.error /\ ids_ok /\ Len(file.data) > 0
                      THEN Max({ParseInt(file.data[i].id) : i \in DOMAIN file.data}) + 1
                      ELSE 1,
                  error |-> lists.error \/ ~ids_ok]

\* FaceTracker._load_registry on top of the fields __init__ has set.  A
\* file that json.load rejects, a record without 'image_path' and an id
\* whose suffix is no number all end in the outer except: registry = {},
\* with the match set and the counter as they are at that point.
LoadRegistry(file) ==
    LET fresh == [registry |-> << >>, tracked_encodings |-> << >>,
                  tracked_ids |-> << >>, next_person_id |-> 1, error |-> FALSE]
    IN  IF ~file.exists THEN fresh
        ELSE IF ~file.valid THEN [fresh EXCEPT !.error = TRUE]
        ELSE LET lists == LoadEncodings(file.data, 1,
                             [tracked_encodings |-> << >>, tracked_ids |-> << >>,
                              error |-> FALSE])
                 ids_ok == \A i \in DOMAIN file.data : IsNumeric(file.data[i].id)
             IN  IF lists.error \/ ~ids_ok
                 THEN [registry |-> << >>,
                       tracked_encodings |-> lists.tracked_encodings,
                       tracked_ids |-> lists.tracked_ids,
                       next_person_id |-> 1, error |-> TRUE]
                 ELSE [registry |-> file.data,
                       tracked_encodings |-> lists.tracked_encodings,
                       tracked_ids |-> lists.tracked_ids,
                       next_person_id |->
                           IF Len(file.data) > 0
                           THEN Max({ParseInt(file.data[i].id) : i \in DOMAIN file.data}) + 1
                           ELSE 1,
                       error |-> FALSE]

\* A record of a registry file written by an earlier run.
SavedRecord(n, image, count) ==
    [id |-> FormatPersonId(n), first_seen |-> 0, last_seen |-> 0,
     image_path |-> image, sharpness_score |-> Some(1),
     detection_count |-> count, person_info |-> None, api_called |-> FALSE]

\* The registry files a tracker is constructed over: no file, a file cut
\* short by a crash while it was written, the file reset_face_registry
\* writes, and files an earlier run saved (one of them with the image of
\* its first record deleted since).
RegistryFiles ==
    { [exists |-> FALSE, valid |-> FALSE, data |-> << >>],
      [exists |-> TRUE, valid |-> FALSE, data |-> << >>],
      [exists |-> TRUE, valid |-> TRUE, data |-> << >>],
      [exists |-> TRUE, valid |-> TRUE,
       data |-> <<SavedRecord(1, ImageFile(TRUE, TRUE, <<0>>), SAVE_EVERY - 1)>>],
      [exists |-> TRUE, valid |-> TRUE,
       data |-> <<SavedRecord(1, ImageFile(FALSE, FALSE, << >>), 1),
                  SavedRecord(2, ImageFile(TRUE, TRUE, <<4>>), 1)>>] }

NoCall == [op |-> "none"]

InitTracker ==
    /\ InitGestureIdle
    /\ registry_file \in RegistryFiles
    /\ quality_check \in BOOLEAN
    /\ LET l == LoadRegistry(registry_file)
       IN  /\ registry = l.registry
           /\ tracked_encodings = l.tracked_encodings
           /\ tracked_ids = l.tracked_ids
           /\ next_person_id = l.next_person_id
           /\ loaded = l.registry
    /\ pending_collections = << >>
    /\ tclock = 0
    /\ resets = 0
    /\ lastCall = NoCall
    /\ minted = << >>

(***************************************************************************)
(* The calls of the tracker.                                               *)
(***************************************************************************)
\* What a call leaves in lastCall.
CallRecord(op, face, ret_id, is_new, saved, joined, collection, best) ==
    [op |-> op, face |-> face, ret_id |-> ret_id, is_new |-> is_new,
     saved |-> saved, joined |-> joined, collection |-> collection,
     best |-> best]

\* track_face, lines 212-221: a re-observation of existing_id.
TrackDuplicate(face, existing_id, t) ==
    LET old == registry[IndexOf(registry, existing_id)]
        rec == [old EXCEPT !.detection_count = @ + 1, !.last_seen = t]
        reg == SetItem(registry, rec)
        save == rec.detection_count % SAVE_EVERY = 0
    IN  /\ registry' = reg
        /\ registry_file' = IF save THEN SaveRegistry(reg) ELSE registry_file
        /\ lastCall' = CallRecord("track_face", face, Some(existing_id), FALSE,
                                  save, None, None, None)
        /\ UNCHANGED <<tracked_encodings, tracked_ids, next_person_id,
                       pending_collections, minted>>

\* The tail shared by track_face (228-277) and _handle_quality_collection
\* (353-398): generate the id, save the crop, extend the match set, add the
\* record, save the registry.
Enroll(face, t, crop, encoding, sharpness, pending, joined, collection, best) ==
    LET gen == GeneratePersonId(next_person_id)
        reg == SetItem(registry,
                       NewRecord(gen.person_id, t, SavedImage(crop), sharpness))
    IN  /\ next_person_id' = gen.next_person_id
        /\ tracked_encodings' = Append(tracked_encodings, encoding)
        /\ tracked_ids' = Append(tracked_ids, gen.person_id)
        /\ registry' = reg
        /\ registry_file' = SaveRegistry(reg)
        /\ pending_collections' = pending
        /\ minted' = Append(minted, [id |-> gen.person_id, epoch |-> resets])
        /\ lastCall' = CallRecord("track_face", face, Some(gen.person_id), TRUE,
                                  TRUE, joined, collection, best)

\* FaceTracker._handle_quality_collection
HandleQualityCollection(face, t) ==
    LET found == FindCollection(pending_collections, face.encoding)
        collection_hash == IF found = None THEN <<face.encoding, t>> ELSE Get(found)
        started == IF found = None
                   THEN StartCollection(pending_collections, collection_hash)
                   ELSE pending_collections
        added == AddFrame(started, collection_hash, CropFace(face),
                          face.encoding, face.location)
        collection == added.pending[PendingIndex(added.pending, collection_hash)]
    IN  IF ~added.complete
        THEN /\ pending_collections' = added.pending
             /\ lastCall' = CallRecord("track_face", face, None, FALSE, FALSE,
                                       found, Some(collection), None)
             /\ UNCHANGED <<registry, tracked_encodings, tracked_ids,
                            next_person_id, registry_file, minted>>
        ELSE LET best == GetBestFrame(added.pending, collection_hash)
             IN  Enroll(face, t, best.best_frame, best.best_encoding,
                        Some(best.sharpness), best.pending, found,
                        Some(collection),
                        Some([frame |-> best.best_frame,
                              encoding |-> best.best_encoding,
                              location |-> best.best_location]))

\* FaceTracker.track_face for one detected face.
TrackFace(face) ==
    /\ tclock' = tclock + 1
    /\ LET dup == IsDuplicate(tracked_encodings, tracked_ids, face.encoding)
       IN  IF dup.is_duplicate
           THEN TrackDuplicate(face, Get(dup.person_id), tclock + 1)
           ELSE IF quality_check
           THEN HandleQualityCollection(face, tclock + 1)
           ELSE Enroll(face, tclock + 1, CropFace(face), face.encoding, None,
                       pending_collections, None, None, None)
    /\ UNCHANGED <<quality_check, resets, loaded>>

NoFace == [encoding |-> 0, sharpness |-> 0, location |-> 0]

PersonIds == {FormatPersonId(n) : n \in 1..3}
PersonInfos == {[full_name |-> "A"]}

\* FaceTracker.store_api_response
StoreApiResponse(person_id, person_info_dict) ==
    /\ tclock' = tclock + 1
    /\ IF person_id \in Keys(registry)
       THEN LET old == registry[IndexOf(registry, person_id)]
                rec == [old EXCEPT !.person_info = Some(person_info_dict),
                                   !.api_called = TRUE]
                reg == SetItem(registry, rec)
            IN  /\ registry' = reg
                /\ registry_file' = SaveRegistry(reg)
                /\ lastCall' = CallRecord("store_api_response", NoFace,
                                          Some(person_id), FALSE, TRUE, None,
                                          None, None)
       ELSE /\ lastCall' = CallRecord("store_api_response", NoFace,
                                      Some(person_id), FALSE, FALSE, None,
                                      None, None)
            /\ UNCHANGED <<registry, registry_file>>
    /\ UNCHANGED <<tracked_encodings, tracked_ids, next_person_id,
                   pending_collections, quality_check, resets, minted, loaded>>

\* FaceTracker.reset
Reset ==
    /\ resets < MaxResets
    /\ tclock' = tclock + 1
    /\ resets' = resets + 1
    /\ registry' = << >>
    /\ tracked_encodings' = << >>
    /\ tracked_ids' = << >>
    /\ next_person_id' = 1
    /\ registry_file' = SaveRegistry(<< >>)
    /\ lastCall' = CallRecord("reset", NoFace, None, FALSE, TRUE, None, None, None)
    /\ UNCHANGED <<pending_collections, quality_check, minted, loaded>>

NextTracker ==
    /\ tclock < MaxCalls
    /\ \/ \E face \in Faces : TrackFace(face)
       \/ \E person_id \in PersonIds, info \in PersonInfos :
              StoreApiResponse(person_id, info)
       \/ Reset

SpecTracker == InitTracker /\ [][NextTracker /\ UNCHANGED <<gvars, rvars, lvars, mvars, xvars>>]_vars

\* A session that starts from an empty registry and only observes faces.
InitSession ==
    /\ InitTracker
    /\ Len(registry) = 0

NextSession ==
    /\ tclock < MaxSessionCalls
    /\ \E face \in Faces : TrackFace(face)

SpecSession == InitSession /\ [][NextSession /\ UNCHANGED <<gvars, rvars, lvars, mvars, xvars>>]_vars

(***************************************************************************)
(* Claims about the face identity tracker.                                 *)
(***************************************************************************)
\* A step that is a track_face call.
IsTrackFaceStep == tclock' = tclock + 1 /\ lastCall'.op = "track_face"

\* The distances from an encoding to the tracked encodings, as a set.
TrackedDistances(encoding) ==
    {FaceDistance(tracked_encodings[i], encoding) : i \in DOMAIN tracked_encodings}

\* The observation matches: the tracked set is not empty and its least
\* distance to the encoding is within the threshold.
Matches(encoding) ==
    /\ Len(tracked_encodings) > 0
    /\ \A d \in TrackedDistances(encoding) :
           (\A e \in TrackedDistances(encoding) : d <= e) => d <= DUPLICATE_THRESHOLD

\* The ids of the tracked encodings nearest to the encoding.
NearestIds(encoding) ==
    {tracked_ids[i] : i \in {k \in DOMAIN tracked_encodings :
        \A e \in TrackedDistances(encoding) :
            FaceDistance(tracked_encodings[k], encoding) <= e}}

\* C4: a track_face call whose encoding is within the threshold of the
\* nearest tracked encoding returns (that identity's id, False), adds 1 to
\* the detection_count of exactly that record, refreshes its last_seen and
\* mints nothing; a call whose encoding is farther than the threshold from
\* every tracked encoding, or that finds no tracked encoding, leaves every
\* existing record as it was and treats the face as new (it is enrolled or
\* buffered, and no existing id is returned).
C4_MatchStep ==
    IsTrackFaceStep =>
        LET call == lastCall'
            encoding == call.face.encoding
        IN  IF Matches(encoding)
            THEN /\ call.ret_id # None
                 /\ Get(call.ret_id) \in NearestIds(encoding)
                 /\ ~call.is_new
                 /\ Len(registry') = Len(registry)
                 /\ \A i \in DOMAIN registry :
                        IF registry[i].id = Get(call.ret_id)
                        THEN /\ registry'[i] =
                                  [registry[i] EXCEPT
                                      !.detection_count = registry[i].detection_count + 1,
                                      !.last_seen = tclock']
                             /\ registry'[i].last_seen > registry[i].last_seen
                        ELSE registry'[i] = registry[i]
                 /\ UNCHANGED <<next_person_id, minted, tracked_encodings,
                                tracked_ids, pending_collections>>
            ELSE /\ \A i \in DOMAIN registry :
                        i \in DOMAIN registry' /\ registry'[i] = registry[i]
                 /\ \/ call.ret_id = None
                    \/ Get(call.ret_id) \notin Keys(registry)
                 /\ \/ call.is_new /\ Len(registry') = Len(registry) + 1
                    \/ /\ quality_check
                       /\ pending_collections' # pending_collections
                       /\ call.ret_id = None /\ ~call.is_new

C5_NoDuplicateIdentities ==
    \A i, j \in DOMAIN tracked_encodings :
        i # j => FaceDistance(tracked_encodings[i], tracked_encodings[j])
                     > DUPLICATE_THRESHOLD

MintedIds(epoch) == {minted[k].id : k \in {n \in DOMAIN minted : minted[n].epoch = epoch}}

\* C6 as stated, without regard to reset(): no id is minted twice.
C6_NoIdMintedTwice ==
    \A i, j \in DOMAIN minted : i # j => minted[i].id # minted[j].id

\* A step that mints an id: the id is the counter zero-padded to 3 digits,
\* the counter grows by exactly 1, and the id is neither a key of the
\* registry nor an id minted since construction or the last reset().
C6_MintStep ==
    IF minted' # minted
    THEN LET new == minted'[Len(minted')]
         IN  /\ Len(minted') = Len(minted) + 1
             /\ new.id = FormatPersonId(next_person_id)
             /\ Len(new.id) >= 3
             /\ ParseInt(new.id) = next_person_id
             /\ next_person_id' = next_person_id + 1
             /\ new.id \notin Keys(registry)
             /\ new.id \notin MintedIds(resets)
             /\ new.id \in Keys(registry')
    ELSE \/ next_person_id' = next_person_id
         \/ lastCall'.op = "reset" /\ next_person_id' = 1

\* The counter is above the numeric suffix of every id in the registry; in
\* the initial state the registry is the loaded one.
C6_CounterAboveKeys ==
    /\ \A i \in DOMAIN registry : ParseInt(registry[i].id) < next_person_id
    /\ lastCall.op = "none" => registry = loaded

\* C6 (amended): ids are 'person_' and the zero-padded counter, the counter
\* grows by 1 per minted identity, after a load it is above the suffix of
\* every loaded id, a minted id is never a key of the registry, and no id
\* is minted twice between two reset() calls.
C6_SequentialIds == []C6_CounterAboveKeys /\ [][C6_MintStep]_vars

\* Ids were minted on top of a loaded registry of two records, the second
\* id right after the first.
C6_Witness ==
    /\ Len(loaded) = 2
    /\ Len(minted) >= 2
    /\ minted[1].id = FormatPersonId(3)
    /\ minted[2].id = FormatPersonId(4)

FileHolds(file, reg) == file.exists /\ file.valid /\ file.data = reg

\* C7 as stated: every call that changes the in-memory registry leaves the
\* registry file holding exactly the in-memory registry.
C7_SavedOnEveryMutationStep ==
    registry' # registry => FileHolds(registry_file', registry')

UnsavedReobservation ==
    /\ lastCall'.op = "track_face"
    /\ lastCall'.ret_id # None
    /\ ~lastCall'.is_new
    /\ registry'[IndexOf(registry', Get(lastCall'.ret_id))].detection_count
           % SAVE_EVERY # 0

C7_SaveStep ==
    registry' # registry =>
        IF UnsavedReobservation
        THEN registry_file' = registry_file
        ELSE FileHolds(registry_file', registry')

\* What the file may lag behind by: detection_count and last_seen only.
SameButCounts(saved, rec) ==
    /\ saved = [rec EXCEPT !.detection_count = saved.detection_count,
                           !.last_seen = saved.last_seen]
    /\ saved.detection_count <= rec.detection_count
    /\ saved.last_seen <= rec.last_seen
    /\ rec.detection_count - saved.detection_count < SAVE_EVERY

C7_FileLagsInCountsOnly ==
    IF registry_file.exists /\ registry_file.valid
    THEN /\ Len(registry_file.data) = Len(registry)
         /\ \A i \in DOMAIN registry : SameButCounts(registry_file.data[i], registry[i])
    ELSE registry = << >>

Hashes(pending) == {pending[i].hash : i \in DOMAIN pending}

\* The number of frames a pending collection holds (0 when there is none).
FramesIn(pending, person_hash) ==
    IF person_hash \in Hashes(pending)
    THEN Len(pending[PendingIndex(pending, person_hash)].frames)
    ELSE 0

\* A track_face step with the quality collection on whose face matches no
\* tracked identity: the frame is the n-th of its collection.  For
\* n < num_frames the call returns (None, False), the registry, the match
\* set, the id counter and the file stay as they are and the collection
\* stays pending with n frames; for n = num_frames exactly one identity is
\* minted with detection_count 1, (its id, True) is returned and the
\* collection is gone while the other collections stay.
C8_CollectStep ==
    (IsTrackFaceStep /\ quality_check /\ ~Matches(lastCall'.face.encoding)) =>
        LET call == lastCall'
            person_hash == Get(call.collection).hash
            n == FramesIn(pending_collections, person_hash) + 1
        IN  /\ call.collection # None
            /\ n <= num_frames
            /\ Len(Get(call.collection).frames) = n
            /\ IF n < num_frames
               THEN /\ call.ret_id = None
                    /\ ~call.is_new
                    /\ UNCHANGED <<registry, tracked_encodings, tracked_ids,
                                   next_person_id, registry_file, minted>>
                    /\ FramesIn(pending_collections', person_hash) = n
               ELSE /\ call.is_new
                    /\ call.ret_id # None
                    /\ Len(registry') = Len(registry) + 1
                    /\ \A i \in DOMAIN registry : registry'[i] = registry[i]
                    /\ registry'[Len(registry')].id = Get(call.ret_id)
                    /\ registry'[Len(registry')].detection_count = 1
                    /\ Get(call.ret_id) \notin Keys(registry)
                    /\ tracked_ids' = Append(tracked_ids, Get(call.ret_id))
                    /\ Len(tracked_encodings') = Len(tracked_encodings) + 1
                    /\ Len(minted') = Len(minted) + 1
                    /\ person_hash \notin Hashes(pending_collections')
                    /\ Hashes(pending_collections') =
                           Hashes(pending_collections) \ {person_hash}

\* C8: with the quality collection on, the first num_frames - 1 frames of
\* a new face change nothing but the pending collection and return
\* (None, False); the num_frames-th frame mints exactly one identity with
\* detection_count 1, returns (id, True) and removes the collection.
C8_QualityGatedEnrollment == [][C8_CollectStep]_vars

\* A collection has just completed and enrolled an identity while another
\* collection is still pending.
C8_Witness ==
    /\ quality_check
    /\ lastCall.op = "track_face"
    /\ lastCall.is_new
    /\ lastCall.collection # None
    /\ Len(Get(lastCall.collection).frames) = num_frames
    /\ Len(pending_collections) >= 1
    /\ registry[Len(registry)].detection_count = 1

\* Index k holds the sharpest crop of the collection, the earliest one.
EarliestSharpest(c, k) ==
    /\ \A j \in DOMAIN c.frames : c.frames[k].sharpness >= c.frames[j].sharpness
    /\ \A j \in DOMAIN c.frames :
           j < k => c.frames[j].sharpness < c.frames[k].sharpness

\* A step that completes a collection commits the crop at the earliest
\* index of maximum sharpness, with the encoding and the location buffered
\* at that index: the new entry of the match set is that encoding, and the
\* new record carries that crop's image and sharpness.
C9_CommitStep ==
    (IsTrackFaceStep /\ lastCall'.is_new /\ lastCall'.collection # None) =>
        LET c == Get(lastCall'.collection)
            best == Get(lastCall'.best)
            rec == registry'[Len(registry')]
        IN  \E k \in DOMAIN c.frames :
                /\ EarliestSharpest(c, k)
                /\ best.frame = c.frames[k]
                /\ best.encoding = c.encodings[k]
                /\ best.location = c.locations[k]
                /\ tracked_encodings' = Append(tracked_encodings, c.encodings[k])
                /\ rec.image_path = SavedImage(c.frames[k])
                /\ rec.image_path.encodings = <<c.encodings[k]>>
                /\ rec.sharpness_score = Some(c.frames[k].sharpness)

\* C9: when a pending collection completes, the committed crop is the
\* buffered crop of maximum sharpness, the earliest on ties, and the
\* encoding and location committed with it are those buffered at the same
\* index.
C9_BestFrame == [][C9_CommitStep]_vars

\* A collection completed whose sharpest crop is tied between two different
\* faces, neither of them the first frame; the earlier one was committed.
C9_Witness ==
    /\ lastCall.op = "track_face"
    /\ lastCall.is_new
    /\ lastCall.collection # None
    /\ LET c == Get(lastCall.collection)
       IN  /\ Len(c.frames) = 3
           /\ c.frames[1].sharpness < c.frames[2].sharpness
           /\ c.frames[2].sharpness = c.frames[3].sharpness
           /\ c.encodings[2] # c.encodings[3]
           /\ c.encodings[1] # c.encodings[2]
           /\ tracked_encodings[Len(tracked_encodings)] = c.encodings[2]

\* The pending collections whose first buffered encoding is within the
\* threshold of the encoding.
WithinOfFirst(encoding) ==
    {i \in DOMAIN pending_collections :
        /\ Len(pending_collections[i].encodings) > 0
        /\ FaceDistance(pending_collections[i].encodings[1], encoding)
               <= DUPLICATE_THRESHOLD}

\* A new-face observation with the quality collection on: if the first
\* buffered encoding of some pending collection is within the threshold,
\* the frame goes to the first such collection and no collection is
\* started; otherwise a collection is started for it, whatever the later
\* buffered encodings of the pending collections are.
C10_MergeStep ==
    (IsTrackFaceStep /\ quality_check /\ ~Matches(lastCall'.face.encoding)) =>
        LET call == lastCall'
            face == call.face
            c == Get(call.collection)
            within == WithinOfFirst(face.encoding)
        IN  IF within # {}
            THEN LET i == CHOOSE k \in within : \A j \in within : k <= j
                     old == pending_collections[i]
                 IN  /\ c.hash = old.hash
                     /\ c.frames = Append(old.frames, CropFace(face))
                     /\ c.encodings = Append(old.encodings, face.encoding)
                     /\ c.locations = Append(old.locations, face.location)
                     /\ Hashes(pending_collections') \subseteq Hashes(pending_collections)
                     /\ \/ /\ ~call.is_new
                           /\ pending_collections' = [pending_collections EXCEPT ![i] = c]
                        \/ /\ call.is_new
                           /\ Len(minted') = Len(minted) + 1
                           /\ Len(pending_collections') = Len(pending_collections) - 1
            ELSE /\ c.hash \notin Hashes(pending_collections)
                 /\ c.encodings = <<face.encoding>>
                 /\ c.frames = <<CropFace(face)>>
                 /\ ~call.is_new
                 /\ pending_collections' = Append(pending_collections, c)

\* C10: a new-face observation within the threshold of the first buffered
\* encoding of a pending collection joins the first such collection and
\* starts none; later buffered encodings are never compared, so faces
\* within the threshold of a collection's first frame share the collection
\* and yield one identity.
C10_PendingMerge == [][C10_MergeStep]_vars

\* A face started a collection of its own although a later frame of a
\* pending collection is within the threshold of it, and that pending
\* collection holds two different faces.
C10_Witness ==
    /\ lastCall.op = "track_face"
    /\ lastCall.ret_id = None
    /\ lastCall.joined = None
    /\ \E i \in DOMAIN pending_collections :
           LET c == pending_collections[i]
           IN  /\ Len(c.encodings) = 2
               /\ c.encodings[1] # c.encodings[2]
               /\ FaceDistance(c.encodings[2], lastCall.face.encoding)
                      <= DUPLICATE_THRESHOLD
               /\ FaceDistance(c.encodings[1], lastCall.face.encoding)
                      > DUPLICATE_THRESHOLD

(***************************************************************************)
(*                 CONSTRUCTION OVER ANY REGISTRY FILE                     *)
(*                                                                         *)
(* _load_registry applied to registry files of every make: records whose   *)
(* image is there and shows a face, is missing, shows no face or cannot   *)
(* be read, records without the key 'image_path', and ids whose suffix is  *)
(* no number.                                                              *)
(***************************************************************************)
MaxStored == 3

LoadKinds == {"ok", "missing", "noface", "raises", "nokey", "badid"}

\* The id of the i-th stored record; 'person_ab' for a bad id.
StoredId(i, kind) == IF kind = "badid" THEN <<10, 11>> ELSE FormatPersonId(i)

\* The image of the i-th stored record.
StoredImage(i, kind) ==
    CASE kind = "missing" -> ImageFile(FALSE, FALSE, << >>)
      [] kind = "noface" -> ImageFile(TRUE, TRUE, << >>)
      [] kind = "raises" -> ImageFile(TRUE, FALSE, << >>)
      [] OTHER -> ImageFile(TRUE, TRUE, <<2 * (i - 1)>>)

\* The i-th record of a registry file.
StoredRecord(i, kind) ==
    IF kind = "nokey"
    THEN [id |-> StoredId(i, kind), first_seen |-> 0, last_seen |-> 0,
          sharpness_score |-> Some(1), detection_count |-> 1,
          person_info |-> None, api_called |-> FALSE]
    ELSE [id |-> StoredId(i, kind), first_seen |-> 0, last_seen |-> 0,
          image_path |-> StoredImage(i, kind), sharpness_score |-> Some(1),
          detection_count |-> 1, person_info |-> None, api_called |-> FALSE]

LoadFiles ==
    { [exists |-> FALSE, valid |-> FALSE, data |-> << >>],
      [exists |-> TRUE, valid |-> FALSE, data |-> << >>] }
    \cup { [exists |-> TRUE, valid |-> TRUE,
            data |-> [i \in DOMAIN kinds |-> StoredRecord(i, kinds[i])]] :
           kinds \in UNION {[1..m -> LoadKinds] : m \in 0..MaxStored} }

\* FaceTracker.__init__ up to the call of _load_registry.
InitLoad ==
    /\ InitGestureIdle
    /\ registry_file \in LoadFiles
    /\ registry = << >>
    /\ tracked_encodings = << >>
    /\ tracked_ids = << >>
    /\ next_person_id = 1
    /\ pending_collections = << >>
    /\ quality_check = TRUE
    /\ tclock = 0
    /\ resets = 0
    /\ lastCall = NoCall
    /\ minted = << >>
    /\ loaded = << >>

\* FaceTracker.__init__, line 75: self._load_registry().
Construct ==
    /\ lastCall.op = "none"
    /\ LET l == LoadRegistry(registry_file)
       IN  /\ registry' = l.registry
           /\ tracked_encodings' = l.tracked_encodings
           /\ tracked_ids' = l.tracked_ids
           /\ next_person_id' = l.next_person_id
           /\ loaded' = l.registry
           /\ lastCall' = [op |-> "load", error |-> l.error]
    /\ UNCHANGED <<pending_collections, registry_file, quality_check, tclock,
                   resets, minted>>

NextLoad == Construct

SpecLoad == InitLoad /\ [][NextLoad /\ UNCHANGED <<gvars, rvars, lvars, mvars, xvars>>]_vars

\* Reading or processing the file raises somewhere in _load_registry.
LoadRaises(file) ==
    /\ file.exists
    /\ \/ ~file.valid
       \/ \E i \in DOMAIN file.data : "image_path" \notin DOMAIN file.data[i]
       \/ \E i \in DOMAIN file.data : ~IsNumeric(file.data[i].id)

\* C11: when reading or processing the registry file raises at any point
\* of _load_registry, the construction completes with an empty registry
\* (and the failure is the only way a file that exists loses its records).
C11_LoadFailureFallsBack ==
    lastCall.op = "load" =>
        /\ LoadRaises(registry_file) => registry = << >>
        /\ lastCall.error <=> LoadRaises(registry_file)
        /\ (~LoadRaises(registry_file) /\ registry_file.exists)
               => registry = registry_file.data

\* A load failed after part of the file had been processed: the records
\* are gone although the file held three.
C11_Witness ==
    /\ lastCall.op = "load"
    /\ lastCall.error
    /\ registry = << >>
    /\ Len(registry_file.data) = 3
    /\ Len(tracked_ids) >= 1

\* The image of a stored record yields no encoding: it is missing, it
\* cannot be loaded or encoded, or no face is found in it.
NoEncoding(image) ==
    \/ ~image.exists
    \/ ~image.loads
    \/ image.encodings = << >>

\* The stored records that yield an encoding, in file order.
Encodable(data) == {i \in DOMAIN data : ~NoEncoding(data[i].image_path)}

\* C12: after a load that did not fall back, a stored record whose image
\* is missing, shows no face or raises while being encoded is absent from
\* the match set but still in the registry, and every other stored record
\* is in the match set with the first encoding of its image, in file
\* order.
C12_RecomputeFailureDropsRecord ==
    (lastCall.op = "load" /\ ~lastCall.error) =>
        LET data == registry_file.data
        IN  /\ Len(tracked_ids) = Cardinality(Encodable(data))
            /\ Len(tracked_encodings) = Len(tracked_ids)
            /\ \A i \in DOMAIN data :
                   /\ i \in DOMAIN registry /\ registry[i] = data[i]
                   /\ IF NoEncoding(data[i].image_path)
                      THEN \A k \in DOMAIN tracked_ids : tracked_ids[k] # data[i].id
                      ELSE LET k == Cardinality({j \in Encodable(data) : j <= i})
                           IN  /\ tracked_ids[k] = data[i].id
                               /\ tracked_encodings[k] = data[i].image_path.encodings[1]

\* Three stored records were loaded, the second of which yields no
\* encoding: the match set holds the first and the third.
C12_Witness ==
    /\ lastCall.op = "load"
    /\ ~lastCall.error
    /\ Len(registry) = 3
    /\ NoEncoding(registry[2].image_path)
    /\ tracked_ids = <<registry[1].id, registry[3].id>>

\* C24: in every state of the tracker, tracked_encodings and tracked_ids
\* are equally long and every id of tracked_ids is a key of the registry.
C24_MatchSetConsistent ==
    /\ Len(tracked_encodings) = Len(tracked_ids)
    /\ \A k \in DOMAIN tracked_ids : tracked_ids[k] \in Keys(registry)

(***************************************************************************)
(*                    THE SNAP HOLD STATE MACHINE ALONE                    *)
(*                                                                         *)
(* detect_gestures frame after frame, and the one write run() makes to the *)
(* detector's state (the payment latch), without the payment path.        *)
(* lastHandled holds the history of the last frame: the hands read, what   *)
(* _detect_snap returned for each, and for every detector key the time     *)
(* since which the key has been evaluated with the predicate true on every *)
(* frame read.                                                             *)
(***************************************************************************)
MaxSnapFrames == 3

\* The clock advance between two frames: the next tick, or a whole payment
\* hold.
SnapGaps == {1, PAYMENT_HOLD_DURATION}

HandKeys == {HandKey(label, idx) : label \in Labels, idx \in 0..(MAX_NUM_HANDS - 1)}

\* What _detect_snap returns for the i-th hand of a frame read at time t.
\* The keys of one frame differ, so each call meets the state the frame
\* began with for its key.
SnapReturned(states, hands, t) ==
    [i \in DOMAIN hands |->
        LET r == DetectSnap(states, HandKey(hands[i].label, i - 1), hands[i].snap, t)
        IN  [is_snap |-> r.is_snap, hold_duration |-> r.hold_duration]]

\* The key is evaluated in this frame with the predicate true.
HeldNow(hands, key) ==
    \E i \in DOMAIN hands : HandKey(hands[i].label, i - 1) = key /\ hands[i].snap

\* History: since when each key has held without a break.
HeldSince(held, hands, t) ==
    [key \in HandKeys |->
        IF HeldNow(hands, key)
        THEN IF held[key] = None THEN Some(t) ELSE held[key]
        ELSE None]

InitSnap ==
    /\ InitTrackerIdle
    /\ now = 0
    /\ gesture_states = << >>
    /\ mainpc = "frame"
    /\ events = << >>
    /\ amount_preview = None
    /\ last_payment_time = 0
    /\ server_ready = FALSE
    /\ threads = << >>
    /\ payment_status = None
    /\ speech = FALSE
    /\ frames = 0
    /\ pauses = 0
    /\ overSeen = {}
    /\ dispatchLog = << >>
    /\ lastHandled = [kind |-> "none", hands |-> << >>, returned |-> << >>,
                      held |-> [key \in HandKeys |-> None]]

\* run(), lines 175-179: a frame is read and detect_gestures evaluates it.
DetectFrame(hands, gap) ==
    /\ frames < MaxSnapFrames
    /\ LET r == DetectGestures(gesture_states, hands, now + gap)
       IN  /\ gesture_states' = r.states
           /\ events' = r.events
    /\ now' = now + gap
    /\ frames' = frames + 1
    /\ lastHandled' = [kind |-> "detect", hands |-> hands,
                       returned |-> SnapReturned(gesture_states, hands, now + gap),
                       held |-> HeldSince(lastHandled.held, hands, now + gap)]
    /\ UNCHANGED <<mainpc, amount_preview, last_payment_time, server_ready,
                   threads, payment_status, speech, pauses, overSeen, dispatchLog>>

\* run(), lines 243-249: the latch of the key run() derives from an event
\* of this frame is set (the cooldown is taken to allow it).
SetLatch(i) ==
    /\ i \in DOMAIN events
    /\ events[i].hold_duration >= PAYMENT_HOLD_DURATION
    /\ MainHandId(events[i]) \in DOMAIN gesture_states
    /\ ~gesture_states[MainHandId(events[i])].payment_triggered
    /\ gesture_states' = [gesture_states EXCEPT
                              ![MainHandId(events[i])].payment_triggered = TRUE]
    /\ lastHandled' = [lastHandled EXCEPT !.kind = "latch"]
    /\ UNCHANGED <<now, mainpc, events, amount_preview, last_payment_time,
                   server_ready, threads, payment_status, speech, frames,
                   pauses, overSeen, dispatchLog>>

NextSnap ==
    \/ \E hands \in HandLists, gap \in SnapGaps : DetectFrame(hands, gap)
    \/ \E i \in 1..MAX_NUM_HANDS : SetLatch(i)

SpecSnap == InitSnap /\ [][NextSnap /\ UNCHANGED <<tvars, rvars, lvars, mvars, xvars>>]_vars

(***************************************************************************)
(* Claims about the snap hold state machine.                               *)
(***************************************************************************)
\* A step in which a frame is read and its hands are evaluated.
IsDetectStep == frames' = frames + 1 /\ lastHandled'.kind = "detect"

\* The detector key of the i-th hand of the frame just read.
KeyOf(hands, i) == HandKey(hands[i].label, i - 1)

\* The key's state was active before the step.
WasActive(key) == key \in DOMAIN gesture_states /\ gesture_states[key].active

\* Every hand of the frame that is in the snap position while its state
\* is not active (or not there yet) ends active with start_time = the
\* time of the frame and payment_triggered False, and (True, 0) is
\* reported for it.
C13_EnterStep ==
    IsDetectStep =>
        \A i \in DOMAIN lastHandled'.hands :
            LET key == KeyOf(lastHandled'.hands, i)
            IN  (lastHandled'.hands[i].snap /\ ~WasActive(key)) =>
                    /\ key \in DOMAIN gesture_states'
                    /\ gesture_states'[key].active
                    /\ gesture_states'[key].start_time = now'
                    /\ ~gesture_states'[key].payment_triggered
                    /\ lastHandled'.returned[i].is_snap
                    /\ lastHandled'.returned[i].hold_duration = 0

\* C13: Idle -> Active.  On the first evaluation of a hand in which the
\* snap predicate holds while its state is not active, the state becomes
\* active, start_time is the current time, payment_triggered is False and
\* the reported hold_duration is 0.
C13_SnapEnter == [][C13_EnterStep]_vars

\* A hand has entered the snap position anew in the third frame: its hold
\* is reported as 0 and stamped now, while the key had a state before.
C13_Witness ==
    /\ lastHandled.kind = "detect"
    /\ frames = 3
    /\ \E i \in DOMAIN lastHandled.hands :
           LET key == KeyOf(lastHandled.hands, i)
           IN  /\ lastHandled.returned[i].is_snap
               /\ lastHandled.returned[i].hold_duration = 0
               /\ gesture_states[key].active
               /\ gesture_states[key].start_time = now
               /\ lastHandled.held[key] = Some(now)
               /\ now > 2

\* Every hand of the frame that is in the snap position while its state
\* is active keeps start_time and payment_triggered, stays active, and
\* (True, now - start_time) is reported, which is at least what any
\* earlier frame of the hold reported.
C14_HoldStep ==
    IsDetectStep =>
        \A i \in DOMAIN lastHandled'.hands :
            LET key == KeyOf(lastHandled'.hands, i)
            IN  (lastHandled'.hands[i].snap /\ WasActive(key)) =>
                    /\ gesture_states'[key] = gesture_states[key]
                    /\ lastHandled'.returned[i].is_snap
                    /\ lastHandled'.returned[i].hold_duration
                           = now' - gesture_states[key].start_time
                    /\ lastHandled'.returned[i].hold_duration
                           >= now - gesture_states[key].start_time
                    /\ now - gesture_states[key].start_time >= 0

\* C14: Active -> Active.  While the predicate keeps holding for a key,
\* the detector leaves start_time and payment_triggered alone and reports
\* hold_duration = now - start_time, which does not decrease over the hold.
C14_SnapHold == [][C14_HoldStep]_vars

\* A latched hold goes on: the hand is reported with a hold of two payment
\* holds while its latch is set.
C14_Witness ==
    /\ lastHandled.kind = "detect"
    /\ \E i \in DOMAIN lastHandled.hands :
           LET key == KeyOf(lastHandled.hands, i)
           IN  /\ lastHandled.returned[i].is_snap
               /\ lastHandled.returned[i].hold_duration = 2 * PAYMENT_HOLD_DURATION
               /\ gesture_states[key].payment_triggered
               /\ gesture_states[key].start_time = now - 2 * PAYMENT_HOLD_DURATION

\* Every hand of the frame that is not in the snap position is reported
\* as (False, 0); if its state was active it ends not active with
\* payment_triggered False, and if it was idle its state is unchanged.
C15_ReleaseStep ==
    IsDetectStep =>
        \A i \in DOMAIN lastHandled'.hands :
            LET key == KeyOf(lastHandled'.hands, i)
            IN  ~lastHandled'.hands[i].snap =>
                    /\ ~lastHandled'.returned[i].is_snap
                    /\ lastHandled'.returned[i].hold_duration = 0
                    /\ key \in DOMAIN gesture_states'
                    /\ IF WasActive(key)
                       THEN /\ ~gesture_states'[key].active
                            /\ ~gesture_states'[key].payment_triggered
                            /\ gesture_states'[key].start_time
                                   = gesture_states[key].start_time
                       ELSE IF key \in DOMAIN gesture_states
                       THEN gesture_states'[key] = gesture_states[key]
                       ELSE gesture_states'[key] = NewHandState

\* C15: Active -> Idle.  When the predicate fails for an active hand the
\* state becomes not active, payment_triggered is cleared and (False, 0.0,
\* 0.0) is returned; when it fails for an idle hand the state is unchanged.
C15_SnapRelease == [][C15_ReleaseStep]_vars

\* A hand whose hold had lasted a payment hold has just been released: it
\* is idle, unlatched, and its start_time is the old one.
C15_Witness ==
    /\ lastHandled.kind = "detect"
    /\ \E i \in DOMAIN lastHandled.hands :
           LET key == KeyOf(lastHandled.hands, i)
           IN  /\ ~lastHandled.hands[i].snap
               /\ ~gesture_states[key].active
               /\ ~gesture_states[key].payment_triggered
               /\ gesture_states[key].start_time > 0
               /\ now - gesture_states[key].start_time >= PAYMENT_HOLD_DURATION

\* C16: the hold_duration reported for a hand is no more than the time for
\* which its key has been evaluated with the snap predicate true on every
\* frame read: it includes no frame in which the hand was not detected or
\* the predicate was false.
C16_HoldIsContinuous ==
    \A i \in DOMAIN events :
        /\ lastHandled.held[events[i].src] # None
        /\ events[i].hold_duration <= now - Get(lastHandled.held[events[i].src])

(***************************************************************************)
(*                 GestureDetector._detect_peace_sign                      *)
(*                                                                         *)
(* One call per step, for one hand key, with the number of criteria the    *)
(* landmarks meet.  In this specification the clock counts tenths of a     *)
(* second.                                                                 *)
(***************************************************************************)
TOTAL_CRITERIA == 10
PEACE_MIN_CRITERIA == 8
PEACE_WINDOW == 5
PEACE_STABLE_FRAMES == 3
GESTURE_COOLDOWN_SECONDS == 10
PEACE_BONUS_FRAMES == 5

MaxPeaceCalls == 6

\* The keys of the hands evaluated, the criteria counts their landmarks
\* reach, and the time between two calls: the next frame, or a pause longer
\* than the stability window.
PeaceKeys == {HandKey("Left", 0), HandKey("Right", 0)}
CriteriaCounts == {PEACE_MIN_CRITERIA - 1, PEACE_MIN_CRITERIA}
PeaceGaps == {1, PEACE_WINDOW + 1}

\* dict[key] = value
SetKey(dict, key, value) ==
    [k \in DOMAIN dict \cup {key} |-> IF k = key THEN value ELSE dict[k]]

\* [f for f in frames if current_time - f['time'] < 0.5]
RECURSIVE RecentFrames(_, _)
RecentFrames(fs, t) ==
    IF Len(fs) = 0 THEN << >>
    ELSE IF t - Head(fs) < PEACE_WINDOW
         THEN <<Head(fs)>> \o RecentFrames(Tail(fs), t)
         ELSE RecentFrames(Tail(fs), t)

\* The confidence of a reported peace sign, in tenths: criteria_met /
\* total_criteria, and min(1.0, confidence + 0.1) from 5 stable frames on.
PeaceConfidence(criteria_met, stable_frames) ==
    IF stable_frames >= PEACE_BONUS_FRAMES /\ criteria_met + 1 <= TOTAL_CRITERIA
    THEN criteria_met + 1
    ELSE IF stable_frames >= PEACE_BONUS_FRAMES THEN TOTAL_CRITERIA
    ELSE criteria_met

\* _detect_peace_sign without the cooldown test.
DetectPeaceSignNoCooldown(stability, cooldowns, hand_id, criteria_met, t) ==
    LET is_peace_candidate == criteria_met >= PEACE_MIN_CRITERIA
        old == IF hand_id \in DOMAIN stability THEN stability[hand_id] ELSE << >>
        recent == RecentFrames(old, t)
        fs == IF is_peace_candidate THEN Append(recent, t) ELSE recent
        stable_frames == Len(fs)
        is_peace == is_peace_candidate /\ stable_frames >= PEACE_STABLE_FRAMES
    IN  IF ~is_peace
        THEN [stability |-> SetKey(stability, hand_id, fs),
              cooldowns |-> cooldowns, is_peace |-> FALSE, confidence |-> 0,
              branch |-> "none"]
        ELSE [stability |-> SetKey(stability, hand_id, << >>),
              cooldowns |-> SetKey(cooldowns, hand_id, t),
              is_peace |-> TRUE,
              confidence |-> PeaceConfidence(criteria_met, stable_frames),
              branch |-> "peace"]

\* _detect_peace_sign from "is_peace_candidate" on, for hand_id at time t:
\* the stability frames and cooldowns after the call and what it returns.
DetectPeaceSign(stability, cooldowns, hand_id, criteria_met, t) ==
    LET is_peace_candidate == criteria_met >= PEACE_MIN_CRITERIA
        old == IF hand_id \in DOMAIN stability THEN stability[hand_id] ELSE << >>
        recent == RecentFrames(old, t)
        fs == IF is_peace_candidate THEN Append(recent, t) ELSE recent
        stable_frames == Len(fs)
        is_peace == is_peace_candidate /\ stable_frames >= PEACE_STABLE_FRAMES
        cooling == /\ hand_id \in DOMAIN cooldowns
                   /\ t - cooldowns[hand_id] < GESTURE_COOLDOWN_SECONDS
    IN  IF ~is_peace
        THEN [stability |-> SetKey(stability, hand_id, fs),
              cooldowns |-> cooldowns, is_peace |-> FALSE, confidence |-> 0,
              branch |-> "none"]
        ELSE IF cooling
        THEN [stability |-> SetKey(stability, hand_id, fs),
              cooldowns |-> cooldowns, is_peace |-> FALSE, confidence |-> 0,
              branch |-> "cooldown"]
        ELSE [stability |-> SetKey(stability, hand_id, << >>),
              cooldowns |-> SetKey(cooldowns, hand_id, t),
              is_peace |-> TRUE,
              confidence |-> PeaceConfidence(criteria_met, stable_frames),
              branch |-> "peace"]

\* History: whether each of the last three evaluations of a key, this one
\* included, was a candidate.
TrailAfter(trail, hand_id, candidate) ==
    LET old == IF hand_id \in DOMAIN trail THEN trail[hand_id] ELSE << >>
        all == Append(old, candidate)
    IN  SetKey(trail, hand_id,
               IF Len(all) > PEACE_STABLE_FRAMES THEN Tail(all) ELSE all)

InitPeace ==
    /\ InitTrackerIdle
    /\ InitGestureIdle
    /\ lastPeace = [kind |-> "none", trail |-> << >>]

\* History: the keys and branches of the evaluations before this one.
EarlierBranches ==
    IF lastPeace.kind = "peace"
    THEN lastPeace.earlier \cup {<<lastPeace.hand_id, lastPeace.branch>>}
    ELSE {}

\* detect_gestures, lines 99-104: the hand with key hand_id is evaluated.
EvaluatePeaceWithin(hand_id, criteria_met, gap, limit) ==
    /\ peace_calls < limit
    /\ peace_calls' = peace_calls + 1
    /\ now' = now + gap
    /\ LET r == DetectPeaceSign(peace_stability, gesture_cooldowns, hand_id,
                                criteria_met, now + gap)
       IN  /\ peace_stability' = r.stability
           /\ gesture_cooldowns' = r.cooldowns
           /\ lastPeace' = [kind |-> "peace", hand_id |-> hand_id,
                            criteria_met |-> criteria_met,
                            is_peace |-> r.is_peace, branch |-> r.branch,
                            confidence |-> r.confidence,
                            earlier |-> EarlierBranches,
                            trail |-> TrailAfter(lastPeace.trail, hand_id,
                                         criteria_met >= PEACE_MIN_CRITERIA)]
    /\ UNCHANGED <<gesture_states, mainpc, events, amount_preview,
                   last_payment_time, server_ready, threads, payment_status,
                   speech, frames, pauses, overSeen, dispatchLog, lastHandled>>

EvaluatePeace(hand_id, criteria_met, gap) ==
    EvaluatePeaceWithin(hand_id, criteria_met, gap, MaxPeaceCalls)

NextPeace ==
    \E hand_id \in PeaceKeys, criteria_met \in CriteriaCounts, gap \in PeaceGaps :
        EvaluatePeace(hand_id, criteria_met, gap)

SpecPeace == InitPeace /\ [][NextPeace /\ UNCHANGED <<tvars, lvars, mvars, xvars>>]_vars

\* C17: a peace sign is reported for a hand only if at least 8 of the 10
\* criteria hold in the current frame and the candidate predicate held on
\* the last three evaluated frames of that hand, the current one included.
C17_PeaceNeedsThreeConsecutive ==
    (lastPeace.kind = "peace" /\ lastPeace.is_peace) =>
        /\ lastPeace.criteria_met >= PEACE_MIN_CRITERIA
        /\ lastPeace.trail[lastPeace.hand_id] = <<TRUE, TRUE, TRUE>>

(***************************************************************************)
(* The peace-sign cooldown (SpecCooldown): one hand key evaluated often    *)
(* enough for a report, suppressed detections and a second report.         *)
(***************************************************************************)
MaxCooldownCalls == 10

CooldownKeys == {HandKey("Right", 0)}

NextCooldown ==
    \E hand_id \in CooldownKeys, criteria_met \in CriteriaCounts, gap \in PeaceGaps :
        EvaluatePeaceWithin(hand_id, criteria_met, gap, MaxCooldownCalls)

SpecCooldown == InitPeace /\ [][NextCooldown /\ UNCHANGED <<tvars, lvars, mvars, xvars>>]_vars

\* dict.get(key, default) for the stability frames of a key.
FramesOf(stability, hand_id) ==
    IF hand_id \in DOMAIN stability THEN stability[hand_id] ELSE << >>

\* A reported detection is at least the cooldown after the last reported
\* one of its key, stamps the cooldown and empties the window; every frame
\* that counted for it is later than the last reported detection.
ReportStep ==
    LET k == lastPeace'.hand_id
        counted == RecentFrames(FramesOf(peace_stability, k), now')
    IN  lastPeace'.is_peace =>
            /\ k \in DOMAIN gesture_cooldowns =>
                  /\ now' - gesture_cooldowns[k] >= GESTURE_COOLDOWN_SECONDS
                  /\ \A i \in DOMAIN counted : counted[i] > gesture_cooldowns[k]
            /\ Len(counted) + 1 >= PEACE_STABLE_FRAMES
            /\ gesture_cooldowns'[k] = now'
            /\ peace_stability'[k] = << >>

\* A detection suppressed by the cooldown returns (False, 0.0) and leaves
\* the cooldown timestamps as they were.
SuppressedStep ==
    lastPeace'.branch = "cooldown" =>
        /\ ~lastPeace'.is_peace
        /\ lastPeace'.confidence = 0
        /\ gesture_cooldowns' = gesture_cooldowns

\* A suppressed detection leaves the stability window as it was.
SuppressedKeepsWindow ==
    lastPeace'.branch = "cooldown" => peace_stability' = peace_stability

\* A suppressed detection drops the frames older than the window and adds
\* the frame of the call, as every call with a candidate does.
SuppressedAddsFrame ==
    LET k == lastPeace'.hand_id
    IN  lastPeace'.branch = "cooldown" =>
            peace_stability'[k] =
                Append(RecentFrames(FramesOf(peace_stability, k), now'), now')

IsPeaceStep == peace_calls' = peace_calls + 1

\* C32 as stated: reported detections of a key are at least
\* GESTURE_COOLDOWN_SECONDS apart, a suppressed detection returns
\* (False, 0.0) and changes neither the cooldown timestamp nor the stability
\* window, and a reported detection empties the window.
C32_SuppressedChangesNothing ==
    [][IsPeaceStep => (ReportStep /\ SuppressedStep /\ SuppressedKeepsWindow)]_vars

\* C32, amended: reported detections of a key are at least
\* GESTURE_COOLDOWN_SECONDS apart, a suppressed detection returns
\* (False, 0.0) and leaves the cooldown timestamp unchanged while its frame
\* is added to the stability window, and a reported detection empties the
\* window so that the next report counts only later frames.
C32_PeaceCooldown ==
    [][IsPeaceStep => (ReportStep /\ SuppressedStep /\ SuppressedAddsFrame)]_vars

\* A second peace sign of the key is reported, after a detection that the
\* cooldown suppressed.
C32_Witness ==
    /\ lastPeace.kind = "peace"
    /\ lastPeace.is_peace
    /\ <<lastPeace.hand_id, "peace">> \in lastPeace.earlier
    /\ <<lastPeace.hand_id, "cooldown">> \in lastPeace.earlier

(***************************************************************************)
(* GestureDetector.detect_gestures with both detectors (SpecBoth): every   *)
(* hand of the frame goes through _detect_snap and then through            *)
(* _detect_peace_sign, and yields a snap event, else a peace event, else   *)
(* nothing.  The clock counts tenths of a second.                          *)
(***************************************************************************)
MaxBothFrames == 4

\* The hands of a frame: whether the landmarks are in the snap position and
\* how many of the peace criteria they meet.
BothHand == [label : {"Right"}, snap : BOOLEAN, criteria_met : CriteriaCounts]
BothHandLists == UNION {[1..n -> BothHand] : n \in 0..MAX_NUM_HANDS}

PeaceEvent(label, idx) ==
    [gesture_type |-> "peace", hand_label |-> label, hold_duration |-> 0,
     src |-> HandKey(label, idx), start |-> 0, first |-> FALSE]

\* detect_gestures, lines 82-124, from the hand at position i on.
RECURSIVE DetectBothFrom(_, _, _, _, _, _, _, _)
DetectBothFrom(states, stability, cooldowns, evs, seen, hands, i, t) ==
    IF i > Len(hands)
    THEN [states |-> states, stability |-> stability, cooldowns |-> cooldowns,
          events |-> evs, detected |-> seen]
    ELSE LET hand_idx == i - 1
             hand_id == HandKey(hands[i].label, hand_idx)
             s == DetectSnap(states, hand_id, hands[i].snap, t)
             p == DetectPeaceSign(stability, cooldowns, hand_id,
                                  hands[i].criteria_met, t)
             evs1 == IF s.is_snap
                     THEN Append(evs, SnapEvent(hands[i].label, s.hold_duration,
                                     hand_idx, s.states[hand_id].start_time))
                     ELSE IF p.is_peace
                     THEN Append(evs, PeaceEvent(hands[i].label, hand_idx))
                     ELSE evs
         IN  DetectBothFrom(s.states, p.stability, p.cooldowns, evs1,
                            Append(seen, [hand_id |-> hand_id,
                                          is_snap |-> s.is_snap,
                                          is_peace |-> p.is_peace]),
                            hands, i + 1, t)

\* One frame goes through detect_gestures.
DetectBoth(hands, gap) ==
    /\ peace_calls < MaxBothFrames
    /\ peace_calls' = peace_calls + 1
    /\ now' = now + gap
    /\ LET r == DetectBothFrom(gesture_states, peace_stability, gesture_cooldowns,
                               << >>, << >>, hands, 1, now + gap)
       IN  /\ gesture_states' = r.states
           /\ peace_stability' = r.stability
           /\ gesture_cooldowns' = r.cooldowns
           /\ events' = r.events
           /\ lastPeace' = [kind |-> "frame", detected |-> r.detected,
                            trail |-> << >>]
    /\ UNCHANGED <<mainpc, amount_preview, last_payment_time, server_ready,
                   threads, payment_status, speech, frames, pauses, overSeen,
                   dispatchLog, lastHandled>>

NextBoth ==
    \E hands \in BothHandLists, gap \in PeaceGaps : DetectBoth(hands, gap)

SpecBoth == InitPeace /\ [][NextBoth /\ UNCHANGED <<tvars, lvars, mvars, xvars>>]_vars

\* The events of the frame come from different hands of the frame.
OneEventPerHand ==
    /\ Len(events') <= Len(lastPeace'.detected)
    /\ \A i, j \in DOMAIN events' : events'[i].src = events'[j].src => i = j
    /\ \A i \in DOMAIN events' :
          \E h \in DOMAIN lastPeace'.detected :
              lastPeace'.detected[h].hand_id = events'[i].src

\* A hand with both detections yields a snap event.
SnapWins ==
    \A h \in DOMAIN lastPeace'.detected :
        LET d == lastPeace'.detected[h]
        IN  (d.is_snap /\ d.is_peace) =>
                \E i \in DOMAIN events' :
                    /\ events'[i].src = d.hand_id
                    /\ events'[i].gesture_type = "snap"

\* The peace detection of a hand with both detections leaves the cooldown
\* timestamp and the stability window of the hand as they were.
DiscardedPeaceChangesNothing ==
    \A h \in DOMAIN lastPeace'.detected :
        LET d == lastPeace'.detected[h]
        IN  (d.is_snap /\ d.is_peace) =>
                /\ FramesOf(peace_stability', d.hand_id)
                      = FramesOf(peace_stability, d.hand_id)
                /\ (d.hand_id \in DOMAIN gesture_cooldowns') =>
                      /\ d.hand_id \in DOMAIN gesture_cooldowns
                      /\ gesture_cooldowns'[d.hand_id] = gesture_cooldowns[d.hand_id]

EventsOfFrameRight == [][IsPeaceStep => (OneEventPerHand /\ SnapWins)]_vars

\* C33: detect_gestures emits at most one event per hand and frame; a hand
\* with both the snap and the peace sign detected yields a snap event, and
\* the peace detection discarded so leaves the peace cooldown timestamp and
\* the stability window of the hand unchanged.
C33_SnapBeforePeace ==
    [][IsPeaceStep =>
          (OneEventPerHand /\ SnapWins /\ DiscardedPeaceChangesNothing)]_vars

\* The parsed amounts that validate_amount accepts.
AcceptedAmounts ==
    {Get(a) : a \in {p \in ParsedAmounts \ {None} :
                        \E c \in Currencies : ValidateAmount(p, c).is_valid}}

\* C27: the amount of every payment thread the gesture flow has started is
\* the configured default or a parsed amount that validate_amount accepted,
\* and lies between 0.00001 and 1000 (so it is neither negative nor zero).
C27_DispatchedAmountValid ==
    \A i \in DOMAIN threads :
        /\ \/ threads[i].amount \in
                 {DEFAULT_PAYMENT_AMOUNT_SUI, DEFAULT_PAYMENT_AMOUNT_XRPL}
           \/ threads[i].amount \in AcceptedAmounts
        /\ threads[i].amount > 0
        /\ threads[i].amount >= MIN_AMOUNT
        /\ threads[i].amount <= MAX_AMOUNT

\* A payment was dispatched with an amount that was parsed from speech, in
\* a run where an unacceptable amount could have been parsed as well.
C27_Witness ==
    \E i \in DOMAIN threads :
        /\ threads[i].amount = 50
        /\ threads[i].amount # DEFAULT_PAYMENT_AMOUNT_SUI

(***************************************************************************)
(* The main loop over a longer run of frames that show at most one hand,   *)
(* the right one: long enough for a hold that is released and a second     *)
(* hold of the same hand that pays.                                        *)
(***************************************************************************)
MaxHoldFrames == 5

OneHandLists ==
    {hands \in HandLists :
        Len(hands) <= 1 /\ \A i \in DOMAIN hands : hands[i].label = "Right"}

NextHold ==
    \/ \E hands \in OneHandLists, gap \in FrameGaps :
          ReadFrameWithin(hands, gap, MaxHoldFrames)
    \/ \E parsed \in ParsedAmounts, currency \in Currencies :
          HandleEvent(parsed, currency)
    \/ DrawFrame
    \/ Pause
    \/ \E i \in DOMAIN threads : ThreadStart(i)
    \/ \E i \in DOMAIN threads, server_ok \in BOOLEAN : ThreadFinish(i, server_ok)

SpecHold == InitGesture /\ [][NextHold /\ UNCHANGED <<tvars, rvars, lvars, mvars, xvars>>]_vars

\* C28: the amount a hold pays is the amount previewed during that same
\* hold: when the main loop dispatches a payment from a preview, the preview
\* was set no earlier than the start of the hold that pays.
C28_PaidPreviewIsOfThisHold ==
    (/\ lastHandled.kind = "snap"
     /\ lastHandled.dispatched
     /\ lastHandled.preview # None)
        => Get(lastHandled.preview).timestamp >= lastHandled.start

\* C23: for every snap event the main loop handles, the key under which it
\* reads and sets payment_triggered is the key under which the detector
\* keeps the hold that produced the event.
C23_LatchKeyIsHoldKey ==
    lastHandled.kind = "snap" => lastHandled.hand_id = lastHandled.src

(***************************************************************************)
(* TransactionLogger and the payment threads that call it (SpecLogger).   *)
(*                                                                         *)
(* A payment thread runs _send_payment_async: the "sending" status, the   *)
(* POST to the crypto server, and on success last_payment_time and         *)
(* log_transaction, which appends a row to transactions.csv and then       *)
(* rewrites transactions.json: load the list, append, open for writing,    *)
(* dump.  Nothing serialises the threads, so every file operation is a    *)
(* step of its own.  The server's digest of thread i's payment is i.       *)
(*                                                                         *)
(* The file transactions.json is absent (None) or has a content: valid is  *)
(* whether json.load can parse it, entries is the list it parses to, size  *)
(* is its length counted in entries (entries print to the same width).     *)
(***************************************************************************)
MaxPayments == 3

TransactionEntry(digest, thread) ==
    [transaction_digest |-> digest, currency |-> thread.currency,
     amount |-> thread.amount, status |-> "success"]

\* _log_to_json, lines 171-178: the transactions already in the file.
JsonLoad(file) ==
    IF file = None
    THEN << >>
    ELSE IF Get(file).valid THEN Get(file).entries ELSE << >>

\* open(self.transactions_json, 'w'): the file exists and is empty.
JsonTruncated == Some([valid |-> FALSE, entries |-> << >>, size |-> 0])

\* json.dump and the close of the handle opened earlier: the text is
\* written from offset 0 over whatever the file holds by then; what another
\* thread wrote beyond its end stays behind it.
JsonDump(file, transactions) ==
    LET size == Get(file).size
        whole == Len(transactions) >= size
    IN  Some([valid |-> whole,
              entries |-> IF whole THEN transactions ELSE << >>,
              size |-> IF whole THEN Len(transactions) ELSE size])

\* The application after __init__, before the first payment of the run:
\* no transactions.json yet.
InitLogger ==
    /\ InitGesture
    /\ transactions_json = None

gidle == <<gesture_states, mainpc, events, amount_preview, speech, frames,
           overSeen, dispatchLog, lastHandled>>

\* run(), lines 243-264: a hold has crossed the payment threshold, the
\* cooldown check passes and the thread is started.
Dispatch ==
    /\ Len(threads) < MaxPayments
    /\ CanSendPayment(now, last_payment_time)
    /\ threads' = Append(threads, NewThread(amount_preview))
    /\ UNCHANGED <<now, last_payment_time, server_ready, payment_status,
                   pauses, gidle, lvars>>

\* _send_payment_async, lines 456-464.
LoggerThreadStart(i) ==
    /\ ThreadStart(i)
    /\ UNCHANGED lvars

\* send_payment up to the server's answer.  A failure returns through
\* _send_payment_async at once; a success stamps last_payment_time and goes
\* on to log_transaction.
ServerAnswers(i, server_ok) ==
    /\ threads[i].pc = "send"
    /\ IF SendPaymentSucceeds(server_ready, server_ok)
       THEN /\ last_payment_time' = now
            /\ threads' = [threads EXCEPT ![i].pc = "csv"]
            /\ UNCHANGED payment_status
       ELSE /\ threads' = [threads EXCEPT ![i].pc = "failure"]
            /\ payment_status' = Some([state |-> "failure", timestamp |-> now])
            /\ UNCHANGED last_payment_time
    /\ UNCHANGED <<now, server_ready, pauses, gidle, lvars>>

\* _log_to_csv: one row appended.
LogToCsv(i) ==
    /\ threads[i].pc = "csv"
    /\ transactions_csv' = Append(transactions_csv, TransactionEntry(i, threads[i]))
    /\ threads' = [threads EXCEPT ![i].pc = "load"]
    /\ UNCHANGED <<now, last_payment_time, server_ready, payment_status,
                   pauses, gidle, transactions_json>>

\* _log_to_json, lines 171-181: the list is loaded and the entry appended.
LoadTransactions(i) ==
    /\ threads[i].pc = "load"
    /\ threads' = [threads EXCEPT ![i] =
          [pc |-> "open", amount |-> threads[i].amount,
           currency |-> threads[i].currency,
           transactions |-> Append(JsonLoad(transactions_json),
                                   TransactionEntry(i, threads[i]))]]
    /\ UNCHANGED <<now, last_payment_time, server_ready, payment_status,
                   pauses, gidle, lvars>>

\* _log_to_json, line 184: open(..., 'w').
OpenJson(i) ==
    /\ threads[i].pc = "open"
    /\ transactions_json' = JsonTruncated
    /\ threads' = [threads EXCEPT ![i].pc = "dump"]
    /\ UNCHANGED <<now, last_payment_time, server_ready, payment_status,
                   pauses, gidle, transactions_csv>>

\* _log_to_json, line 185 and the end of the with block; log_transaction
\* and send_payment return and _send_payment_async sets the status.
DumpJson(i) ==
    /\ threads[i].pc = "dump"
    /\ transactions_json' = JsonDump(transactions_json, threads[i].transactions)
    /\ threads' = [threads EXCEPT ![i].pc = "success"]
    /\ payment_status' = Some([state |-> "success", timestamp |-> now])
    /\ UNCHANGED <<now, last_payment_time, server_ready, pauses, gidle,
                   transactions_csv>>

\* The cooldown passes before the next hold.
LoggerPause ==
    /\ Pause
    /\ UNCHANGED lvars

NextLogger ==
    \/ Dispatch
    \/ LoggerPause
    \/ \E i \in DOMAIN threads : LoggerThreadStart(i)
    \/ \E i \in DOMAIN threads, server_ok \in BOOLEAN : ServerAnswers(i, server_ok)
    \/ \E i \in DOMAIN threads : LogToCsv(i)
    \/ \E i \in DOMAIN threads : LoadTransactions(i)
    \/ \E i \in DOMAIN threads : OpenJson(i)
    \/ \E i \in DOMAIN threads : DumpJson(i)

SpecLogger == InitLogger /\ [][NextLogger /\ UNCHANGED <<tvars, rvars, mvars, xvars>>]_vars

\* How many entries of the list carry the digest.
RECURSIVE CountDigest(_, _)
CountDigest(entries, digest) ==
    IF entries = << >>
    THEN 0
    ELSE (IF Head(entries).transaction_digest = digest THEN 1 ELSE 0)
         + CountDigest(Tail(entries), digest)

Quiescent == \A i \in DOMAIN threads : threads[i].pc \in {"success", "failure"}

\* C18: once every payment thread has finished, transactions.json parses
\* and holds exactly one entry, and transactions.csv exactly one row, for
\* each payment the server reported successful, and none for a failed one.
C18_AllSuccessfulLogged ==
    Quiescent =>
        \A i \in DOMAIN threads :
            LET n == IF threads[i].pc = "success" THEN 1 ELSE 0
            IN  /\ CountDigest(transactions_csv, i) = n
                /\ CountDigest(JsonLoad(transactions_json), i) = n

(***************************************************************************)
(* IMessageHandler (SpecMessage).  Time is counted in seconds.  A string  *)
(* is the sequence of its characters.                                      *)
(***************************************************************************)
MaxMessageCalls == 4
MAX_LENGTH == 1000
OSASCRIPT_TIMEOUT == 5

Whitespace == {" ", "\n"}

\* str.strip() that strips nothing: a variant that the rejection of a
\* whitespace-only transcript (C20) must tell apart from the code.
StripNothing(text) == text

RECURSIVE LStrip(_)
LStrip(text) ==
    IF text # << >> /\ Head(text) \in Whitespace THEN LStrip(Tail(text)) ELSE text

RECURSIVE RStrip(_)
RStrip(text) ==
    IF text # << >> /\ text[Len(text)] \in Whitespace
    THEN RStrip(SubSeq(text, 1, Len(text) - 1))
    ELSE text

\* str.strip()
Strip(text) ==
    RStrip(LStrip(text))

\* message.replace('"', '\\"')
RECURSIVE EscapeQuotes(_)
EscapeQuotes(text) ==
    IF text = << >>
    THEN << >>
    ELSE (IF Head(text) = "\"" THEN <<"\\", "\"">> ELSE <<Head(text)>>)
         \o EscapeQuotes(Tail(text))

\* send_transcript, lines 113-116
Truncate(transcript) ==
    IF Len(transcript) > MAX_LENGTH
    THEN SubSeq(transcript, 1, MAX_LENGTH) \o <<".", ".", ".">>
    ELSE transcript

\* can_send with ">" for ">=": a variant that the end of the cooldown (C19)
\* must tell apart from the code.
CanSendStrict(t, last) == t - last > cooldown_seconds

\* can_send at time t
CanSend(t, last) ==
    t - last >= cooldown_seconds

\* What subprocess.run(['osascript', ...], timeout=5) does and how long it
\* takes: return code 0, another return code, TimeoutExpired, or another
\* exception (no osascript on this machine).
Osascript ==
    {[result |-> "ok", took |-> 0], [result |-> "ok", took |-> 2],
     [result |-> "fail", took |-> 0],
     [result |-> "timeout", took |-> OSASCRIPT_TIMEOUT],
     [result |-> "error", took |-> 0]}

\* send_imessage called at time t: what it returns, last_send_time after
\* it, the text handed to Messages if any, and how long the call took.
SendImessage(last, message, osascript, t) ==
    LET refused == [returned |-> FALSE, last_send_time |-> last,
                    sent |-> None, took |-> 0]
        stripped == Strip(message)
    IN  IF t - last < cooldown_seconds
        THEN refused
        ELSE IF stripped = << >>
        THEN refused
        ELSE IF osascript.result = "ok"
        THEN [returned |-> TRUE, last_send_time |-> t,
              sent |-> Some(EscapeQuotes(stripped)), took |-> osascript.took]
        ELSE [refused EXCEPT !.took = osascript.took]

\* send_transcript called at time t
SendTranscript(last, transcript, osascript, t) ==
    IF transcript = << >> \/ Strip(transcript) = << >>
    THEN [returned |-> FALSE, last_send_time |-> last, sent |-> None, took |-> 0]
    ELSE SendImessage(last, Truncate(Strip(transcript)), osascript, t)

Messages == {<< >>, <<" ">>, <<" ", "h", "i", "\n">>, <<"\"">>}
SleepGaps == {1, cooldown_seconds}

InitMessage ==
    /\ InitTrackerIdle
    /\ InitGestureIdle
    /\ last_send_time = 0

\* Whether a message was delivered less than cooldown_seconds before t.
Cooling(t) == sentAt # None /\ t - Get(sentAt) < cooldown_seconds

\* The history of a send call that returned r.
SendHistory(op, message, osascript, r) ==
    /\ lastSend' = [op |-> op, message |-> message, osascript |-> osascript,
                    start |-> mclock, before |-> last_send_time,
                    cooling |-> Cooling(mclock),
                    returned |-> r.returned, sent |-> r.sent # None]
    /\ firstSend' = IF firstSend = None
                    THEN Some([op |-> op, message |-> message,
                               start |-> mclock, only |-> TRUE])
                    ELSE Some([Get(firstSend) EXCEPT !.only = FALSE])
    /\ sentAt' = IF r.sent # None THEN Some(mclock) ELSE sentAt

AfterSend(r) ==
    /\ message_calls < MaxMessageCalls
    /\ message_calls' = message_calls + 1
    /\ last_send_time' = r.last_send_time
    /\ outbox' = IF r.sent # None THEN Append(outbox, Get(r.sent)) ELSE outbox
    /\ mclock' = mclock + r.took

CallSendImessage(message, osascript) ==
    LET r == SendImessage(last_send_time, message, osascript, mclock)
    IN  /\ AfterSend(r)
        /\ SendHistory("send_imessage", message, osascript, r)

CallSendTranscript(transcript, osascript) ==
    LET r == SendTranscript(last_send_time, transcript, osascript, mclock)
    IN  /\ AfterSend(r)
        /\ SendHistory("send_transcript", transcript, osascript, r)

CallCanSend ==
    /\ message_calls < MaxMessageCalls
    /\ message_calls' = message_calls + 1
    /\ lastSend' = [op |-> "can_send", start |-> mclock,
                    returned |-> CanSend(mclock, last_send_time)]
    /\ UNCHANGED <<last_send_time, outbox, mclock, firstSend, sentAt>>

\* time.sleep between two calls
Sleep(gap) ==
    /\ message_calls < MaxMessageCalls
    /\ message_calls' = message_calls + 1
    /\ mclock' = mclock + gap
    /\ lastSend' = [op |-> "sleep"]
    /\ UNCHANGED <<last_send_time, outbox, firstSend, sentAt>>

NextMessage ==
    \/ \E message \in Messages, osascript \in Osascript :
          CallSendImessage(message, osascript)
    \/ \E transcript \in Messages, osascript \in Osascript :
          CallSendTranscript(transcript, osascript)
    \/ CallCanSend
    \/ \E gap \in SleepGaps : Sleep(gap)

SpecMessage ==
    InitMessage /\ [][NextMessage /\ UNCHANGED <<gvars, tvars, rvars, lvars, xvars>>]_vars

IsBlank(text) == \A i \in DOMAIN text : text[i] \in Whitespace

\* C20: send_transcript with an empty or whitespace-only transcript returns
\* False, delivers no message and leaves last_send_time as it was.
C20_BlankTranscriptRejected ==
    (lastSend.op = "send_transcript" /\ IsBlank(lastSend.message)) =>
        /\ ~lastSend.returned
        /\ ~lastSend.sent
        /\ last_send_time = lastSend.before

\* A whitespace-only transcript is rejected although no cooldown is active
\* and osascript would have succeeded.
C20_Witness ==
    /\ lastSend.op = "send_transcript"
    /\ lastSend.message # << >>
    /\ IsBlank(lastSend.message)
    /\ lastSend.start - lastSend.before >= cooldown_seconds
    /\ lastSend.osascript.result = "ok"
    /\ ~lastSend.returned

(***************************************************************************)
(* SpeechTranscriber: the transcription buffer (SpecSpeech).  on_message  *)
(* runs on Deepgram's thread and get_unprocessed_segments on the caller's; *)
(* both work under buffer_lock, so each is one step.  A segment's          *)
(* timestamp is its arrival number.                                        *)
(***************************************************************************)
BUFFER_MAXLEN == 100
MaxSegments == 102

\* deque(maxlen=...).append
DequeAppend(buffer, x, maxlen) ==
    IF Len(buffer) = maxlen THEN Append(Tail(buffer), x) ELSE Append(buffer, x)

\* get_unprocessed_segments: what it returns and last_processed_index
\* after it.
GetUnprocessedSegments(buffer, last) ==
    LET start_index == last + 1
    IN  IF buffer = << >>
        THEN [unprocessed |-> << >>, last_processed_index |-> last]
        ELSE IF start_index < Len(buffer)
        THEN [unprocessed |-> SubSeq(buffer, start_index + 1, Len(buffer)),
              last_processed_index |-> Len(buffer) - 1]
        ELSE [unprocessed |-> << >>, last_processed_index |-> last]

Sentences == {<< >>, <<" ">>, <<"h", "i">>}

InitSpeech ==
    /\ InitTrackerIdle
    /\ InitGestureIdle
    /\ transcription_buffer = << >>

\* on_message, lines 174-189
OnMessage(sentence) ==
    /\ segments < MaxSegments
    /\ IF sentence # << >> /\ Strip(sentence) # << >>
       THEN /\ transcription_buffer' =
                 DequeAppend(transcription_buffer,
                             [text |-> sentence, timestamp |-> segments + 1],
                             BUFFER_MAXLEN)
            /\ latest_transcription' = sentence
            /\ segments' = segments + 1
            /\ lastSpeech' = [op |-> "on_message"]
       ELSE UNCHANGED <<transcription_buffer, latest_transcription, segments,
                        lastSpeech>>
    /\ UNCHANGED <<last_processed_index, returned_log>>

CallGetUnprocessedSegments ==
    LET r == GetUnprocessedSegments(transcription_buffer, last_processed_index)
    IN  /\ last_processed_index' = r.last_processed_index
        /\ returned_log' = returned_log \o
              [i \in DOMAIN r.unprocessed |-> r.unprocessed[i].timestamp]
        /\ lastSpeech' = [op |-> "get_unprocessed_segments",
                          returned |-> r.unprocessed]
        /\ UNCHANGED <<transcription_buffer, latest_transcription, segments>>

NextSpeech ==
    \/ \E sentence \in Sentences : OnMessage(sentence)
    \/ CallGetUnprocessedSegments

SpecSpeech ==
    InitSpeech /\ [][NextSpeech /\ UNCHANGED <<gvars, tvars, rvars, lvars, mvars, pvars, cvars, avars, evars>>]_vars

\* How many times the log names the segment.
TimesReturned(log, timestamp) ==
    Cardinality({i \in DOMAIN log : log[i] = timestamp})

\* C21: when a call of get_unprocessed_segments returns, every segment that
\* is in the buffer has been returned by exactly one call, and the segments
\* returned so far are in arrival order.  (The statement asks this of every
\* segment ever appended; the segments still in the buffer are the least it
\* asks.)
C21_AllUnprocessedReturned ==
    lastSpeech.op = "get_unprocessed_segments" =>
        /\ \A i \in DOMAIN transcription_buffer :
              TimesReturned(returned_log, transcription_buffer[i].timestamp) = 1
        /\ \A i, j \in DOMAIN returned_log :
              i < j => returned_log[i] < returned_log[j]

(***************************************************************************)
(* PersonInfo and its dictionary form (SpecPerson).  An object is the      *)
(* function from its attribute names to their values, a dict the function  *)
(* from its keys; a caller's keyword arguments are a dict too.             *)
(***************************************************************************)
PersonFields == {"person_id", "status", "summary", "full_name"}
PersonRequired == {"person_id", "status"}

DictGet(data, key, default) == IF key \in DOMAIN data THEN data[key] ELSE default

\* PersonInfo(**kwargs): the dataclass __init__.  A keyword that is no
\* field, or a missing required field, raises TypeError.
PersonInfoNew(kwargs) ==
    IF DOMAIN kwargs \subseteq PersonFields /\ PersonRequired \subseteq DOMAIN kwargs
    THEN [raised |-> FALSE,
          value |-> [f \in PersonFields |-> DictGet(kwargs, f, "")]]
    ELSE [raised |-> TRUE, value |-> << >>]

\* PersonInfo.to_dict
ToDict(person) ==
    [k \in {"person_id", "status", "summary", "full_name"} |-> person[k]]

\* PersonInfo.from_dict
FromDict(data) ==
    [f \in PersonFields |->
        CASE f = "person_id" -> DictGet(data, "person_id", "")
          [] f = "status"    -> DictGet(data, "status", "scraping")
          [] f = "summary"   -> DictGet(data, "summary", "")
          [] f = "full_name" -> DictGet(data, "full_name", "")]

PersonValues == {"", "completed", "x"}
PersonOptional == {"summary", "full_name", "email"}
PersonKwargs ==
    UNION {[PersonRequired \cup opt -> PersonValues] : opt \in SUBSET PersonOptional}

InitPerson ==
    /\ InitRestFields
    /\ InitTrackerFields
    /\ InitGestureFields
    /\ person_kwargs \in PersonKwargs
    /\ person_result = [op |-> "none"]

\* test_display.py, lines 8-25: the object is built from the keyword
\* arguments, converted with to_dict and restored with from_dict.
RoundTrip ==
    /\ person_result.op = "none"
    /\ LET p == PersonInfoNew(person_kwargs)
       IN  person_result' =
              [op |-> "round_trip", raised |-> p.raised,
               restored |-> IF p.raised THEN << >> ELSE FromDict(ToDict(p.value))]
    /\ UNCHANGED person_kwargs

\* test_display.py, lines 27-39: the same keys as a dict, through from_dict.
Restore ==
    /\ person_result.op = "none"
    /\ person_result' = [op |-> "from_dict", raised |-> FALSE,
                         restored |-> FromDict(person_kwargs)]
    /\ UNCHANGED person_kwargs

NextPerson == RoundTrip \/ Restore

SpecPerson ==
    InitPerson /\ [][NextPerson /\ UNCHANGED <<gvars, tvars, rvars, lvars, mvars, svars, cvars, avars, evars>>]_vars

\* C22: a PersonInfo built from its fields, the email the display test
\* passes included, comes back from from_dict(to_dict()) with every one of
\* those fields and the same value in each.
C22_RoundTrip ==
    person_result.op = "round_trip" =>
        /\ ~person_result.raised
        /\ \A f \in DOMAIN person_kwargs :
              /\ f \in DOMAIN person_result.restored
              /\ person_result.restored[f] = person_kwargs[f]

(***************************************************************************)
(* CryptoPaymentHandler on its own (SpecPayment): start_server,           *)
(* stop_server, send_payment and the clock, called one after the other.   *)
(* Time is counted in ticks of half a second.                              *)
(***************************************************************************)
MAX_ATTEMPTS == 30
HEALTH_SLEEP == 2
MaxPayCalls == 4

\* The answer to health check i (from 0): the check numbered ok_at (from 1)
\* returns 200, the others raise RequestException or return another status.
HealthAnswer(i, ok_at, raises) ==
    IF i + 1 = ok_at THEN "200" ELSE IF raises THEN "exception" ELSE "500"

\* The wait that takes the server for ready when the checks run out: a
\* variant that the readiness contract (C26) must tell apart from the code.
RECURSIVE WaitForServerOptimistic(_, _, _, _)
WaitForServerOptimistic(i, ok_at, raises, slept) ==
    IF i >= MAX_ATTEMPTS \/ HealthAnswer(i, ok_at, raises) = "200"
    THEN [ready |-> TRUE, slept |-> slept]
    ELSE WaitForServerOptimistic(i + 1, ok_at, raises,
                                 IF raises THEN slept + HEALTH_SLEEP ELSE slept)

\* start_server, lines 71-82: the loop over the health checks from check i
\* on; slept is the time spent in time.sleep(1) so far.
RECURSIVE WaitForServer(_, _, _, _)
WaitForServer(i, ok_at, raises, slept) ==
    IF i >= MAX_ATTEMPTS
    THEN [ready |-> FALSE, slept |-> slept]
    ELSE IF HealthAnswer(i, ok_at, raises) = "200"
    THEN [ready |-> TRUE, slept |-> slept]
    ELSE WaitForServer(i + 1, ok_at, raises,
                       IF raises THEN slept + HEALTH_SLEEP ELSE slept)

\* What start_server meets: the server directory and file, what Popen does,
\* and the health checks.
StartEnvs ==
    {[path |-> "nodir", popen |-> "ok", ok_at |-> 0, raises |-> TRUE],
     [path |-> "nofile", popen |-> "ok", ok_at |-> 0, raises |-> TRUE],
     [path |-> "ok", popen |-> "notfound", ok_at |-> 0, raises |-> TRUE],
     [path |-> "ok", popen |-> "error", ok_at |-> 0, raises |-> TRUE],
     [path |-> "ok", popen |-> "ok", ok_at |-> 1, raises |-> TRUE],
     [path |-> "ok", popen |-> "ok", ok_at |-> MAX_ATTEMPTS, raises |-> TRUE],
     [path |-> "ok", popen |-> "ok", ok_at |-> 0, raises |-> TRUE],
     [path |-> "ok", popen |-> "ok", ok_at |-> 0, raises |-> FALSE]}

\* start_server: what it returns, the process and server_ready after it,
\* and how long it waited.
StartServerResult(env, process, ready) ==
    IF env.path # "ok" \/ env.popen # "ok"
    THEN [returned |-> FALSE, server_process |-> process,
          server_ready |-> ready, slept |-> 0]
    ELSE LET w == WaitForServer(0, env.ok_at, env.raises, 0)
         IN  [returned |-> TRUE, server_process |-> Some("running"),
              server_ready |-> IF w.ready THEN TRUE ELSE ready,
              slept |-> w.slept]

\* What the POST to /gift-crypto or /xrpl/gift-crypto can end in: a success
\* response, a success response whose 'transaction' is null, an error
\* response, a timeout, no connection, or a body that is no JSON.
PostAnswers == {"success", "malformed", "error", "timeout", "unreachable", "invalid"}

\* send_payment: the result it returns, last_payment_time after it, whether
\* the server was contacted and whether log_transaction was called.
SendPaymentResult(ready, last, answer, t) ==
    IF ~ready
    THEN [success |-> FALSE, message |-> "Server not ready",
          last_payment_time |-> last, contacted |-> FALSE, logged |-> FALSE]
    ELSE CASE answer = "success" ->
                [success |-> TRUE, message |-> "sent",
                 last_payment_time |-> t, contacted |-> TRUE, logged |-> TRUE]
           [] answer = "malformed" ->
                [success |-> FALSE, message |-> "exception",
                 last_payment_time |-> t, contacted |-> TRUE, logged |-> FALSE]
           [] OTHER ->
                [success |-> FALSE, message |-> answer,
                 last_payment_time |-> last, contacted |-> TRUE, logged |-> FALSE]

\* CryptoPaymentHandler.__init__
InitPayment ==
    /\ InitGesture
    /\ server_ready = FALSE
    /\ server_process = None

pidle == <<gesture_states, mainpc, events, amount_preview, threads,
           payment_status, speech, frames, pauses, overSeen, dispatchLog,
           lastHandled>>

CallStartServer(env) ==
    /\ pay_calls < MaxPayCalls
    /\ pay_calls' = pay_calls + 1
    /\ LET r == StartServerResult(env, server_process, server_ready)
       IN  /\ server_process' = r.server_process
           /\ server_ready' = r.server_ready
           /\ now' = now + r.slept
           /\ lastPay' = [op |-> "start_server", env |-> env,
                          returned |-> r.returned, ready_before |-> server_ready]
    /\ UNCHANGED <<last_payment_time, posts, pidle, lvars>>

\* stop_server
CallStopServer ==
    /\ pay_calls < MaxPayCalls
    /\ pay_calls' = pay_calls + 1
    /\ IF server_process # None
       THEN server_process' = None /\ server_ready' = FALSE
       ELSE UNCHANGED <<server_process, server_ready>>
    /\ lastPay' = [op |-> "stop_server", ready_before |-> server_ready]
    /\ UNCHANGED <<now, last_payment_time, posts, pidle, lvars>>

CallSendPayment(currency, answer) ==
    /\ pay_calls < MaxPayCalls
    /\ pay_calls' = pay_calls + 1
    /\ LET r == SendPaymentResult(server_ready, last_payment_time, answer, now)
           entry == TransactionEntry(posts + 1,
                       [currency |-> currency,
                        amount |-> IF currency = "XRPL"
                                   THEN DEFAULT_PAYMENT_AMOUNT_XRPL
                                   ELSE DEFAULT_PAYMENT_AMOUNT_SUI])
       IN  /\ last_payment_time' = r.last_payment_time
           /\ posts' = IF r.contacted THEN posts + 1 ELSE posts
           /\ IF r.logged
              THEN /\ transactions_csv' = Append(transactions_csv, entry)
                   /\ transactions_json' =
                        JsonDump(JsonTruncated,
                                 Append(JsonLoad(transactions_json), entry))
              ELSE UNCHANGED lvars
           /\ lastPay' = [op |-> "send_payment", answer |-> answer,
                          ready_before |-> server_ready,
                          before |-> last_payment_time,
                          could_send |-> CanSendPayment(now, last_payment_time),
                          success |-> r.success, message |-> r.message,
                          contacted |-> r.contacted]
    /\ UNCHANGED <<now, server_ready, server_process, pidle>>

\* Time passes between two calls.
PaymentTick(gap) ==
    /\ pay_calls < MaxPayCalls
    /\ pay_calls' = pay_calls + 1
    /\ now' = now + gap
    /\ lastPay' = [op |-> "tick", ready_before |-> server_ready]
    /\ UNCHANGED <<last_payment_time, server_ready, server_process, posts,
                   pidle, lvars>>

NextPayment ==
    \/ \E env \in StartEnvs : CallStartServer(env)
    \/ CallStopServer
    \/ \E currency \in Currencies, answer \in PostAnswers :
          CallSendPayment(currency, answer)
    \/ \E gap \in {1, PAYMENT_COOLDOWN} : PaymentTick(gap)

SpecPayment ==
    InitPayment /\ [][NextPayment /\ UNCHANGED <<tvars, rvars, mvars, svars, pvars, avars, evars>>]_vars

\* C25: a call of send_payment that returns a failure leaves
\* last_payment_time as it was, so can_send_payment() answers after the
\* call what it answered before it.
C25_FailureLeavesCooldown ==
    (lastPay.op = "send_payment" /\ ~lastPay.success) =>
        /\ last_payment_time = lastPay.before
        /\ CanSendPayment(now, last_payment_time) = lastPay.could_send

C26_ReadyStep ==
    pay_calls' = pay_calls + 1 =>
        /\ (server_ready' /\ ~server_ready) =>
              (lastPay'.op = "start_server" /\ lastPay'.env.ok_at # 0)
        /\ (lastPay'.op = "start_server" /\ lastPay'.env.ok_at = 0) =>
              server_ready' = server_ready
        /\ (lastPay'.op = "send_payment" /\ ~server_ready) =>
              /\ ~lastPay'.success
              /\ lastPay'.message = "Server not ready"
              /\ ~lastPay'.contacted
              /\ posts' = posts
              /\ ~server_ready'

MaxStatusFrames == 3

\* What send_payment does within _send_payment_async: it returns a success
\* or a failure dictionary, or an exception leaves it.
SendOutcomes == {"success", "failure", "raises"}

StatusGaps == {1, PAYMENT_DISPLAY_DURATION + 1}

\* The threads other than i that are between their "sending" write and
\* their last write.
InFlight(i) ==
    {j \in DOMAIN threads \ {i} : threads[j].pc \in {"send", "print", "except"}}

\* What the steps so far have met: two threads in flight at once, an
\* exception in a thread, a status cleared by the overlay.
StatusNote ==
    IF lastHandled.kind = "status"
    THEN lastHandled
    ELSE [kind |-> "status", overlap |-> FALSE, raised |-> FALSE,
          cleared |-> FALSE]

\* _send_payment_async, lines 494-498: the status the except clause leaves.
ExceptStatusKept(status, t) == status

ExceptStatus(status, t) == Some([state |-> "failure", timestamp |-> t])

sidle == <<gesture_states, events, amount_preview, speech, pauses, overSeen,
           dispatchLog>>

\* run(): a hold crosses the payment threshold while the loop handles the
\* events of a frame, and the thread is started.
StatusDispatch ==
    /\ mainpc = "frame"
    /\ Dispatch

\* _send_payment_async, lines 456-461: the "sending" status.
StatusThreadStart(i) ==
    /\ ThreadStart(i)

\* _send_payment_async, lines 464-490: send_payment ends and the branch of
\* its result writes the status; an exception goes to the except clause.
SendPaymentReturns(i, outcome) ==
    /\ threads[i].pc = "send"
    /\ outcome = "success" => server_ready
    /\ last_payment_time' = IF outcome = "success" THEN now ELSE last_payment_time
    /\ payment_status' =
          IF outcome = "raises"
          THEN payment_status
          ELSE Some([state |-> outcome, timestamp |-> now])
    /\ threads' = [threads EXCEPT ![i].pc =
                      CASE outcome = "success" -> "print"
                        [] outcome = "failure" -> "failure"
                        [] OTHER -> "except"]
    /\ lastHandled' = [StatusNote EXCEPT
                          !.overlap = @ \/ InFlight(i) # {},
                          !.raised = @ \/ outcome = "raises"]
    /\ UNCHANGED <<now, server_ready, mainpc, frames, sidle>>

\* _send_payment_async, lines 479-481: the prints after the success status;
\* len(recipient_addr) raises when the result carries no address.
PrintSuccess(i, raises) ==
    /\ threads[i].pc = "print"
    /\ threads' = [threads EXCEPT ![i].pc = IF raises THEN "except" ELSE "success"]
    /\ lastHandled' = [StatusNote EXCEPT
                          !.overlap = @ \/ InFlight(i) # {},
                          !.raised = @ \/ raises]
    /\ UNCHANGED <<now, server_ready, mainpc, frames, sidle, payment_status,
                   last_payment_time>>

\* _send_payment_async, lines 492-498: the except clause.
ExceptClause(i) ==
    /\ threads[i].pc = "except"
    /\ payment_status' = ExceptStatus(payment_status, now)
    /\ threads' = [threads EXCEPT ![i].pc = "failure"]
    /\ lastHandled' = [StatusNote EXCEPT !.overlap = @ \/ InFlight(i) # {}]
    /\ UNCHANGED <<now, server_ready, mainpc, frames, sidle, last_payment_time>>

\* run(): the next frame is read and processed; draw_overlays, line 396,
\* reads payment_status and calls _draw_payment_overlay when it is set.
StatusFrame(gap) ==
    /\ mainpc = "frame"
    /\ frames < MaxStatusFrames
    /\ now' = now + gap
    /\ frames' = frames + 1
    /\ mainpc' = IF payment_status # None THEN "state" ELSE "frame"
    /\ UNCHANGED <<server_ready, threads, payment_status, last_payment_time,
                   lastHandled, sidle>>

\* _draw_payment_overlay, lines 502-506: the state is read.
OverlayReadState ==
    /\ mainpc = "state"
    /\ mainpc' = IF Get(payment_status).state \in {"success", "failure"}
                 THEN "timestamp"
                 ELSE "frame"
    /\ UNCHANGED <<now, frames, server_ready, threads, payment_status,
                   last_payment_time, lastHandled, sidle>>

\* _draw_payment_overlay, line 507: the timestamp is read, of the status
\* that is there now.
OverlayReadTimestamp ==
    /\ mainpc = "timestamp"
    /\ mainpc' = IF now - Get(payment_status).timestamp > PAYMENT_DISPLAY_DURATION
                 THEN "clear"
                 ELSE "frame"
    /\ UNCHANGED <<now, frames, server_ready, threads, payment_status,
                   last_payment_time, lastHandled, sidle>>

\* _draw_payment_overlay, line 508.
OverlayClear ==
    /\ mainpc = "clear"
    /\ payment_status' = None
    /\ mainpc' = "frame"
    /\ lastHandled' = [StatusNote EXCEPT !.cleared = TRUE]
    /\ UNCHANGED <<now, frames, server_ready, threads, last_payment_time, sidle>>

NextStatus ==
    \/ StatusDispatch
    \/ \E i \in DOMAIN threads : StatusThreadStart(i)
    \/ \E i \in DOMAIN threads, outcome \in SendOutcomes :
          SendPaymentReturns(i, outcome)
    \/ \E i \in DOMAIN threads, raises \in BOOLEAN : PrintSuccess(i, raises)
    \/ \E i \in DOMAIN threads : ExceptClause(i)
    \/ \E gap \in StatusGaps : StatusFrame(gap)
    \/ OverlayReadState
    \/ OverlayReadTimestamp
    \/ OverlayClear

SpecStatus == InitLogger /\ [][NextStatus /\ UNCHANGED <<tvars, rvars, lvars, mvars, xvars>>]_vars

AllThreadsFinished ==
    \A i \in DOMAIN threads : threads[i].pc \in {"success", "failure"}

\* C29: once every payment thread that was dispatched has finished, by a
\* success, a failure or an exception, payment_status is not "sending",
\* whatever the interleaving of the threads and of the overlay's clearing.
C29_NoSendingAfterThreads ==
    (threads # << >> /\ AllThreadsFinished) =>
        (payment_status = None \/ Get(payment_status).state # "sending")

\* Three threads have finished, two of them were in flight at once, one
\* went through the except clause, and the status the last one wrote is
\* still shown.
C29_Witness ==
    /\ Len(threads) = MaxPayments
    /\ AllThreadsFinished
    /\ lastHandled.kind = "status"
    /\ lastHandled.overlap
    /\ lastHandled.raised
    /\ payment_status # None

(***************************************************************************)
(* PersonInfoAPI polling (SpecPolling): get_person_info, stop_polling and  *)
(* clear_cache called one after the other by the application, and the      *)
(* poll_worker threads _start_polling has started, each between its        *)
(* "while" test and the end of its sleep.                                  *)
(***************************************************************************)
MaxApiCalls == 4
MaxWorkers == 3
MaxPolls == 2

\* config.py, in seconds.
PERSON_INFO_POLL_INTERVAL == 1
PERSON_INFO_MAX_POLL_TIME == 300

PolledPersons == {FormatPersonId(1), FormatPersonId(2)}

\* The status of the PersonInfo _fetch_from_supabase returns.
FetchedStatus == {"scraping", "completed", "error"}

\* dict.get(key, default)
GetOr(dict, key, default) == IF key \in DOMAIN dict THEN dict[key] ELSE default

\* dict[key] = value
DictSet(dict, key, value) == [k \in DOMAIN dict \cup {key} |->
                                 IF k = key THEN value ELSE dict[k]]

\* _start_polling: the flags and workers it leaves.  A worker starts at its
\* "while" test; passed is the number of workers there were when it last
\* passed that test, elapsed is time.time() - start_time as the worker last
\* had it, last is how its last fetch ended, and stop_requested is whether
\* stop_polling has cleared its flag since its last "while" test.
StartPolling(active, workers, person_id) ==
    IF person_id \in DOMAIN active /\ active[person_id]
    THEN [active |-> active, workers |-> workers]
    ELSE [active |-> DictSet(active, person_id, TRUE),
          workers |-> Append(workers,
                        [person_id |-> person_id, pc |-> "while",
                         poll_count |-> 0, passed |-> 0, elapsed |-> 0,
                         last |-> "none", stop_requested |-> FALSE])]

\* stop_polling(person_id): the flags it leaves; None stops every person.
StopPollingFlags(active, person_id) ==
    IF person_id # None
    THEN DictSet(active, Get(person_id), FALSE)
    ELSE [k \in DOMAIN active |-> FALSE]

\* The workers after stop_polling(person_id): those it concerns and that
\* have not ended are noted as asked to stop.
StopRequested(workers, person_id) ==
    [w \in DOMAIN workers |->
        IF /\ workers[w].pc # "done"
           /\ (person_id = None \/ workers[w].person_id = Get(person_id))
        THEN [workers[w] EXCEPT !.stop_requested = TRUE]
        ELSE workers[w]]

InitPolling ==
    /\ InitTrackerIdle
    /\ InitGestureIdle
    /\ person_cache = << >>

aidle == <<gvars, tvars, rvars, lvars, mvars, svars, pvars, cvars, evars>>

\* get_person_info(person_id, image_filename); fetched is the status
\* Supabase holds when the person is not cached.
GetPersonInfo(person_id, has_filename, fetched) ==
    /\ api_calls < MaxApiCalls
    /\ LET cached == person_id \in DOMAIN person_cache
           restart == /\ cached
                      /\ person_cache[person_id] = "scraping"
                      /\ person_id \notin DOMAIN polling_active
           first == ~cached /\ has_filename /\ fetched = "scraping"
           r == IF restart \/ first
                THEN StartPolling(polling_active, poll_workers, person_id)
                ELSE [active |-> polling_active, workers |-> poll_workers]
       IN  /\ Len(r.workers) <= MaxWorkers
           /\ person_cache' = IF ~cached /\ has_filename
                              THEN DictSet(person_cache, person_id, fetched)
                              ELSE person_cache
           /\ polling_active' = r.active
           /\ poll_workers' = r.workers
    /\ api_calls' = api_calls + 1

\* stop_polling(person_id)
StopPolling(person_id) ==
    /\ api_calls < MaxApiCalls
    /\ polling_active' = StopPollingFlags(polling_active, person_id)
    /\ poll_workers' = StopRequested(poll_workers, person_id)
    /\ api_calls' = api_calls + 1
    /\ UNCHANGED person_cache

\* clear_cache()
ClearCache ==
    /\ api_calls < MaxApiCalls
    /\ person_cache' = << >>
    /\ polling_active' = StopPollingFlags(polling_active, None)
    /\ poll_workers' = StopRequested(poll_workers, None)
    /\ api_calls' = api_calls + 1

\* poll_worker, lines 318-326: the "while" test and the timeout test, then
\* the sleep begins.  A worker that has polled MaxPolls times finds its
\* time over.
WorkerWhile(w, timed_out) ==
    /\ poll_workers[w].pc = "while"
    /\ poll_workers[w].poll_count >= MaxPolls => timed_out
    /\ LET person_id == poll_workers[w].person_id
           go == GetOr(polling_active, person_id, FALSE)
       IN  /\ polling_active' =
                 IF go /\ timed_out
                 THEN DictSet(polling_active, person_id, FALSE)
                 ELSE polling_active
           /\ poll_workers' = [poll_workers EXCEPT
                 ![w].pc = IF go /\ ~timed_out THEN "sleep" ELSE "done",
                 ![w].passed = IF go /\ ~timed_out THEN Len(poll_workers) ELSE @,
                 ![w].stop_requested = FALSE]
    /\ UNCHANGED <<person_cache, api_calls>>

\* poll_worker, lines 329-360: the sleep is over, the person is fetched
\* again and cached; a completed or error status ends the worker, and an
\* exception in the try block is caught and the loop goes on.  duration is
\* what the sleep and the fetch took beyond poll_interval.
WorkerPollTakes(w, fetched, duration) ==
    /\ poll_workers[w].pc = "sleep"
    /\ LET person_id == poll_workers[w].person_id
           ends == fetched \in {"completed", "error"}
       IN  /\ person_cache' = IF fetched = "raises"
                              THEN person_cache
                              ELSE DictSet(person_cache, person_id, fetched)
           /\ polling_active' =
                 IF ends THEN DictSet(polling_active, person_id, FALSE)
                 ELSE polling_active
           /\ poll_workers' = [poll_workers EXCEPT
                 ![w].pc = IF ends THEN "done" ELSE "while",
                 ![w].poll_count = @ + 1,
                 ![w].elapsed = @ + PERSON_INFO_POLL_INTERVAL + duration,
                 ![w].last = fetched]
    /\ UNCHANGED api_calls

WorkerPoll(w, fetched) == WorkerPollTakes(w, fetched, 0)

NextPolling ==
    \/ \E person_id \in PolledPersons, has_filename \in BOOLEAN,
          fetched \in FetchedStatus :
          GetPersonInfo(person_id, has_filename, fetched)
    \/ \E person_id \in {None} \cup {Some(p) : p \in PolledPersons} :
          StopPolling(person_id)
    \/ ClearCache
    \/ \E w \in DOMAIN poll_workers, timed_out \in BOOLEAN : WorkerWhile(w, timed_out)
    \/ \E w \in DOMAIN poll_workers, fetched \in FetchedStatus : WorkerPoll(w, fetched)

SpecPolling == InitPolling /\ [][NextPolling /\ UNCHANGED aidle]_vars

\* C30: a person never has two poll workers running.  Counted as running
\* here are only workers that are not done and, of two, the older only if
\* it passed its "while" test after the younger was started.
C30_OneWorkerPerPerson ==
    \A v, w \in DOMAIN poll_workers :
        (/\ v < w
         /\ poll_workers[v].person_id = poll_workers[w].person_id
         /\ poll_workers[w].pc # "done")
            => ~(poll_workers[v].pc = "sleep" /\ poll_workers[v].passed >= w)

(***************************************************************************)
(* The poll workers with their clocks (SpecPollTime): the "while" test     *)
(* compares the time since the worker started with                         *)
(* PERSON_INFO_MAX_POLL_TIME, every poll takes poll_interval and what the  *)
(* fetch takes, and a fetch may raise.  Threads are scheduled and, as the  *)
(* claim supposes, every sleep ends and every fetch returns or raises.     *)
(***************************************************************************)
\* What a sleep and a fetch take beyond poll_interval: nothing, or so long
\* that the poll time is just reached, or passed.
PollDurations == {0, PERSON_INFO_MAX_POLL_TIME - 1, PERSON_INFO_MAX_POLL_TIME}

PollOutcomes == FetchedStatus \cup {"raises"}

TimedOut(worker) == worker.elapsed > PERSON_INFO_MAX_POLL_TIME

\* poll_worker, lines 318-326, with the clock of the worker.
PollWhile(w) ==
    /\ w \in DOMAIN poll_workers
    /\ WorkerWhile(w, TimedOut(poll_workers[w]))

\* poll_worker, lines 329-360.  The last poll the bound allows is a slow
\* one, after which the poll time is over.
PollFetch(w, fetched, duration) ==
    /\ w \in DOMAIN poll_workers
    /\ poll_workers[w].poll_count + 1 >= MaxPolls =>
          poll_workers[w].elapsed + PERSON_INFO_POLL_INTERVAL + duration
             > PERSON_INFO_MAX_POLL_TIME
    /\ WorkerPollTakes(w, fetched, duration)

WorkerStep(w) ==
    \/ PollWhile(w)
    \/ \E fetched \in PollOutcomes, duration \in PollDurations :
          PollFetch(w, fetched, duration)

\* One person is polled here.
TimedPersons == {FormatPersonId(1)}

NextPollTime ==
    \/ \E person_id \in TimedPersons, has_filename \in BOOLEAN,
          fetched \in FetchedStatus :
          GetPersonInfo(person_id, has_filename, fetched)
    \/ \E person_id \in {None} \cup {Some(p) : p \in TimedPersons} :
          StopPolling(person_id)
    \/ ClearCache
    \/ \E w \in 1..MaxWorkers : WorkerStep(w)

SpecPollTime ==
    /\ InitPolling
    /\ [][NextPollTime /\ UNCHANGED aidle]_vars
    /\ \A w \in 1..MaxWorkers : WF_vars(WorkerStep(w) /\ UNCHANGED aidle)

\* The worker w takes its step from the "while" test.
WhileStepOf(w) ==
    /\ poll_workers[w].pc = "while"
    /\ poll_workers'[w].pc # "while"

\* The worker w takes a poll.
PollStepOf(w) ==
    /\ poll_workers[w].pc = "sleep"
    /\ poll_workers'[w].poll_count = poll_workers[w].poll_count + 1

\* A poll with a completed or error status ends the worker and clears its
\* flag; a poll that is still scraping, or that raises, does not end it.
PollStepRight(w) ==
    PollStepOf(w) =>
        IF poll_workers'[w].last \in {"completed", "error"}
        THEN /\ poll_workers'[w].pc = "done"
             /\ polling_active'[poll_workers[w].person_id] = FALSE
        ELSE poll_workers'[w].pc = "while"

\* A "while" test after the poll time ends the worker, with its flag
\* cleared; a test before it ends the worker only if the flag is cleared.
TimeoutStepRight(w) ==
    WhileStepOf(w) =>
        /\ TimedOut(poll_workers[w]) =>
              /\ poll_workers'[w].pc = "done"
              /\ ~GetOr(polling_active', poll_workers[w].person_id, FALSE)
        /\ (poll_workers'[w].pc = "done" /\ ~TimedOut(poll_workers[w])) =>
              ~GetOr(polling_active, poll_workers[w].person_id, FALSE)

\* The first "while" test after stop_polling has cleared the flag of the
\* worker ends the worker.
StopStepRight(w) ==
    (WhileStepOf(w) /\ poll_workers[w].stop_requested) =>
        poll_workers'[w].pc = "done"

PollWorkerEnds ==
    \A w \in 1..MaxWorkers :
        (w \in DOMAIN poll_workers) ~>
            (w \in DOMAIN poll_workers /\ poll_workers[w].pc = "done")

PollStepsRight ==
    [][\A w \in DOMAIN poll_workers : PollStepRight(w) /\ TimeoutStepRight(w)]_vars

\* C31: every poll worker ends; it ends at the first poll that is completed
\* or in error, at the first "while" test after stop_polling cleared its
\* flag, and at the latest at the first "while" test after
\* PERSON_INFO_MAX_POLL_TIME; a fetch that raises does not end it; ending by
\* completion or timeout it clears its flag.
C31_WorkerTerminates ==
    /\ PollWorkerEnds
    /\ PollStepsRight
    /\ [][\A w \in DOMAIN poll_workers : StopStepRight(w)]_vars

(***************************************************************************)
(* FaceEngine (SpecEngine): detect_and_recognize_faces on every frame and  *)
(* reset_frame_cache when the database is rebuilt.  A face is stood for by *)
(* its position in the list face_locations returns; the empty string is    *)
(* the empty sequence.                                                     *)
(***************************************************************************)
PROCESS_EVERY_N_FRAMES == 2
MAX_FACES_TO_PROCESS == 10

MaxEngineCalls == 6

\* How many faces face_locations finds in a frame: none, a few, or more
\* than are processed.
DetectedCounts == {0, 1, 2, MAX_FACES_TO_PROCESS + 1}

\* face_locations[:MAX_FACES_TO_PROCESS]
LimitFaces(n) == IF n > MAX_FACES_TO_PROCESS THEN MAX_FACES_TO_PROCESS ELSE n

\* What a processed frame with n faces yields, lines 98-140: known is
\* whether the database has known faces, matched whether _recognize_face
\* finds them, tracking whether track_face is called.
ProcessedFrame(n, known, matched, tracking) ==
    [face_locations |-> [i \in 1..n |-> i],
     face_names |-> [i \in 1..n |-> IF known /\ matched THEN "Known" ELSE "Unknown"],
     confidences |-> [i \in 1..n |-> IF known /\ matched THEN 1 ELSE 0],
     tracked_ids |-> [i \in 1..n |-> IF tracking THEN FormatPersonId(i) ELSE << >>]]

Cached ==
    [face_locations |-> last_face_locations, face_names |-> last_face_names,
     confidences |-> last_face_confidences, tracked_ids |-> last_tracked_ids]

\* detect_and_recognize_faces(frame, bgr_frame)
DetectAndRecognizeFaces(detected, known, matched, tracking) ==
    /\ engine_calls < MaxEngineCalls
    /\ engine_calls' = engine_calls + 1
    /\ frame_count' = frame_count + 1
    /\ IF (frame_count + 1) % PROCESS_EVERY_N_FRAMES # 0
       THEN /\ lastEngine' = [op |-> "detect", path |-> "cached",
                              returned |-> Cached]
            /\ UNCHANGED <<last_face_locations, last_face_names,
                           last_face_confidences, last_tracked_ids>>
       ELSE LET r == ProcessedFrame(LimitFaces(detected), known, matched, tracking)
            IN  /\ last_face_locations' = r.face_locations
                /\ last_face_names' = r.face_names
                /\ last_face_confidences' = r.confidences
                /\ last_tracked_ids' = r.tracked_ids
                /\ lastEngine' = [op |-> "detect", path |-> "processed",
                                  returned |-> r]

\* reset_frame_cache()
ResetFrameCache ==
    /\ engine_calls < MaxEngineCalls
    /\ engine_calls' = engine_calls + 1
    /\ frame_count' = 0
    /\ last_face_locations' = << >>
    /\ last_face_names' = << >>
    /\ last_face_confidences' = << >>
    /\ lastEngine' = [op |-> "reset"]
    /\ UNCHANGED last_tracked_ids

InitEngine ==
    /\ InitTrackerIdle
    /\ InitGestureIdle
    /\ frame_count = 0

NextEngine ==
    \/ \E detected \in DetectedCounts, known, matched, tracking \in BOOLEAN :
          DetectAndRecognizeFaces(detected, known, matched, tracking)
    \/ ResetFrameCache

SpecEngine ==
    InitEngine /\ [][NextEngine /\ UNCHANGED <<gvars, tvars, rvars, lvars, mvars, svars, pvars, cvars, avars>>]_vars

\* C34: the four lists a call of detect_and_recognize_faces returns have
\* the same length, on processed frames, on skipped frames and after
\* reset_frame_cache.
C34_ReturnedListsSameLength ==
    lastEngine.op = "detect" =>
        LET r == lastEngine.returned
        IN  /\ Len(r.face_names) = Len(r.face_locations)
            /\ Len(r.confidences) = Len(r.face_locations)
            /\ Len(r.tracked_ids) = Len(r.face_locations)

\* The lists of a processed frame have the same length.
ProcessedListsSameLength ==
    (lastEngine.op = "detect" /\ lastEngine.path = "processed") =>
        LET r == lastEngine.returned
        IN  /\ Len(r.face_names) = Len(r.face_locations)
            /\ Len(r.confidences) = Len(r.face_locations)
            /\ Len(r.tracked_ids) = Len(r.face_locations)

====
